---- MODULE Spec2Model ----
(***************************************************************************)
(* json_diff_c: structural diff and patch of cJSON trees                   *)
(* (src/src/json_diff.c).                                                  *)
(*                                                                         *)
(* A cJSON node is a record.  `type` is the low byte of cJSON's type       *)
(* field, `ref` the cJSON_IsReference bit, `string` the member key stored  *)
(* on the node, `child` the list of its children.  `own` names the         *)
(* allocation a node belongs to ("in": a tree the caller passed as left,   *)
(* right or base; "delta": the delta the caller passed to json_patch;      *)
(* "heap": allocated by the call itself with malloc; "arena": allocated by *)
(* the call in its arena; "freed": released by the call), so that a        *)
(* pointer into an argument is visible as a node whose `own` is neither    *)
(* "heap" nor "arena".  `kown` is the allocation of the copy of the key.   *)
(* `w` records a write into a node the call did not allocate.              *)
(* Keys are tuples of one-character strings, so that printing and parsing  *)
(* of array indices are computed, not assumed.  A number i + e * 5e-10 is  *)
(* the pair <<i, e>>.                                                      *)
(***************************************************************************)
EXTENDS Integers, Sequences, FiniteSets, TLC

\* ------------------------------------------------------------------ bounds
\* Longest array and longest object the generator builds.
MaxArrLen == 3
MaxObjLen == 2
\* How far past MAX_JSON_DEPTH the leaked patch counter is followed.
MaxOverrun == 1

\* ------------------------------------------------------- program constants
\* #ifndef MAX_JSON_DEPTH / #define MAX_JSON_DEPTH 1024: a build-time macro.
\* The model is built with -DMAX_JSON_DEPTH=8, the smallest even value (1024
\* is even, and json_diff spends two counts per level) under which the seven
\* wire vectors are not refused.
MAX_JSON_DEPTH == 8
INT_MAX == 2147483647
\* #ifndef MAX_JSON_INPUT_SIZE / #define MAX_JSON_INPUT_SIZE (1024 * 1024).
MAX_JSON_INPUT_SIZE == 1048576
\* MAX_ARENA_SIZE is named by arena_malloc and defined by no file of the
\* sources: the build supplies it.  The model is built with 1 << 30.
MAX_ARENA_SIZE == 1073741824
\* sizeof(void *) and sizeof(cJSON) on an LP64 target.
SizeofPtr == 8
SizeofCJSON == 64

\* The one element of a one-element set.  Only({e(x) : x \in {v}}) is e(v)
\* with v computed once: a local variable holding the result of a call.
Only(S) == CHOOSE e \in S : TRUE

\* ---------------------------------------------------------------- strings
CharCode ==
  (" " :> 32) @@ ("+" :> 43) @@ ("," :> 44) @@ ("-" :> 45) @@
  ("0" :> 48) @@ ("1" :> 49) @@ ("2" :> 50) @@ ("3" :> 51) @@ ("4" :> 52) @@
  ("5" :> 53) @@ ("6" :> 54) @@ ("7" :> 55) @@ ("8" :> 56) @@ ("9" :> 57) @@
  ("A" :> 65) @@ ("B" :> 66) @@ ("[" :> 91) @@ ("]" :> 93) @@ ("_" :> 95) @@
  ("a" :> 97) @@ ("b" :> 98) @@
  ("t" :> 116) @@ ("x" :> 120)

\* The char* NULL (a node that is no object member has string == NULL).
NULLSTR == <<"NULL">>

tolower(c) == IF c >= 65 /\ c <= 90 THEN c + 32 ELSE c

\* strcmp(a, b) on NUL-terminated strings: <0, 0, >0.
RECURSIVE strcmp(_, _)
strcmp(a, b) ==
  IF a = <<>> /\ b = <<>> THEN 0
  ELSE IF a = <<>> THEN -1
  ELSE IF b = <<>> THEN 1
  ELSE IF CharCode[Head(a)] # CharCode[Head(b)]
       THEN CharCode[Head(a)] - CharCode[Head(b)]
  ELSE strcmp(Tail(a), Tail(b))

\* cJSON's case_insensitive_strcmp: 0 on a match, 1 when either is NULL.
RECURSIVE case_insensitive_strcmp(_, _)
case_insensitive_strcmp(a, b) ==
  IF a = NULLSTR \/ b = NULLSTR THEN 1
  ELSE IF a = <<>> /\ b = <<>> THEN 0
  ELSE IF a = <<>> THEN -1
  ELSE IF b = <<>> THEN 1
  ELSE IF tolower(CharCode[Head(a)]) # tolower(CharCode[Head(b)])
       THEN tolower(CharCode[Head(a)]) - tolower(CharCode[Head(b)])
  ELSE case_insensitive_strcmp(Tail(a), Tail(b))

Digits == <<"0", "1", "2", "3", "4", "5", "6", "7", "8", "9">>

\* snprintf(buf, sizeof buf, "%d", i) for i >= 0.
RECURSIVE snprintf_d(_)
snprintf_d(i) ==
  IF i < 10 THEN <<Digits[i + 1]>>
  ELSE snprintf_d(i \div 10) \o <<Digits[(i % 10) + 1]>>

\* snprintf(index_str, sizeof(index_str), "%d", i) where the code has "_%d".
snprintf_ud_bare(i) == snprintf_d(i)

\* snprintf(buf, sizeof buf, "_%d", i).
snprintf_ud(i) == <<"_">> \o snprintf_d(i)

IsDigit(c) == CharCode[c] >= 48 /\ CharCode[c] <= 57

\* The digit run of strtol: [val, n, big] = value so far, characters
\* consumed, value above INT_MAX (a long holds it, the callers reject it).
RECURSIVE strtol_digits(_, _, _, _)
strtol_digits(s, val, n, big) ==
  IF s = <<>> \/ ~IsDigit(Head(s)) THEN [val |-> val, n |-> n, big |-> big]
  ELSE LET d == CharCode[Head(s)] - 48
           over == big \/ val > 214748364 \/ (val = 214748364 /\ d > 7)
       IN strtol_digits(Tail(s), IF over THEN INT_MAX ELSE val * 10 + d,
                        n + 1, over)

RECURSIVE SkipSpace(_)
SkipSpace(s) == IF s # <<>> /\ Head(s) = " " THEN SkipSpace(Tail(s)) ELSE s

\* strtol(s, &endptr, 10): [val, big, neg, none, rest]; none: endptr == s
\* (no digits converted), rest: what endptr points at.
strtol(s) ==
  Only({
    LET signed == t # <<>> /\ Head(t) \in {"+", "-"}
        neg == t # <<>> /\ Head(t) = "-"
    IN Only({
         Only({ [val |-> r.val, big |-> r.big, neg |-> neg /\ r.val > 0,
                 none |-> r.n = 0,
                 rest |-> IF r.n = 0 THEN s ELSE SubSeq(u, r.n + 1, Len(u))]
                : r \in {strtol_digits(u, 0, 0, FALSE)} })
         : u \in {IF signed THEN Tail(t) ELSE t} })
    : t \in {SkipSpace(s)} })

\* The index check every caller of strtol repeats:
\* endptr == k || *endptr != '\0' || idx < 0 || idx > INT_MAX  -> rejected.
IndexOk(k) ==
  \E r \in {strtol(k)} : ~r.none /\ r.rest = <<>> /\ ~r.neg /\ ~r.big

\* ------------------------------------------------------------ cJSON nodes
Node(t, n, s, c) ==
  [type |-> t, ref |-> FALSE, valuedouble |-> n, valuestring |-> s,
   string |-> NULLSTR, child |-> c, own |-> "heap", kown |-> "heap",
   w |-> FALSE]

\* The null pointer.
NULL == Node("NULLPTR", <<0, 0>>, "", <<>>)

cJSON_CreateNull == Node("null", <<0, 0>>, "", <<>>)
cJSON_CreateBool(b) == Node(IF b THEN "true" ELSE "false", <<0, 0>>, "", <<>>)
cJSON_CreateNumber(n) == Node("number", n, "", <<>>)
cJSON_CreateString(s) == Node("string", <<0, 0>>, s, <<>>)
cJSON_CreateArray == Node("array", <<0, 0>>, "", <<>>)
cJSON_CreateObject == Node("object", <<0, 0>>, "", <<>>)

cJSON_IsObject(v) == v # NULL /\ v.type = "object"
cJSON_IsArray(v) == v # NULL /\ v.type = "array"
cJSON_IsString(v) == v # NULL /\ v.type = "string"
cJSON_IsNumber(v) == v # NULL /\ v.type = "number"
cJSON_IsBool(v) == v # NULL /\ v.type \in {"true", "false"}
cJSON_IsTrue(v) == v # NULL /\ v.type = "true"

\* cJSON_Create{Object,Array}Reference(child): a new container whose child
\* pointer is `child` itself, so its members are `child` and every sibling
\* that follows it; `list` is that chain.  The members stay where they are.
cJSON_CreateObjectReference(list) ==
  [Node("object", <<0, 0>>, "", list) EXCEPT !.ref = TRUE]
cJSON_CreateArrayReference(list) ==
  [Node("array", <<0, 0>>, "", list) EXCEPT !.ref = TRUE]

cJSON_GetArraySize(v) == IF v = NULL THEN 0 ELSE Len(v.child)

\* cJSON_GetArrayItem(array, index), index from 0.
cJSON_GetArrayItem(v, i) ==
  IF v = NULL \/ i < 0 \/ i >= Len(v.child) THEN NULL ELSE v.child[i + 1]

\* Position (from 1) of the first member whose key matches without regard to
\* case, 0 when there is none: the search of cJSON_GetObjectItem.
RECURSIVE FindItem(_, _, _)
FindItem(ch, k, i) ==
  IF i > Len(ch) THEN 0
  ELSE IF case_insensitive_strcmp(k, ch[i].string) = 0 THEN i
  ELSE FindItem(ch, k, i + 1)

cJSON_GetObjectItem(v, k) ==
  IF v = NULL \/ k = NULLSTR THEN NULL
  ELSE LET i == FindItem(v.child, k, 1) IN
       IF i = 0 THEN NULL ELSE v.child[i]

\* A write into container c: noted when c is not the call's own allocation
\* (a block of malloc or of the arena).
Written(c) == [c EXCEPT !.w = (c.w \/ c.own \notin {"heap", "arena"})]

\* Linking an item into a list writes the item's own next/prev (and, in an
\* object, its key).
cJSON_AddItemToArray(a, item) ==
  [Written(a) EXCEPT !.child = Append(a.child, Written(item))]

\* cJSON_AddItemToObject(object, string, item): refuses a NULL key.
cJSON_AddItemToObject(o, k, item) ==
  IF k = NULLSTR THEN o
  ELSE [Written(o) EXCEPT !.child =
          Append(o.child, [Written(item) EXCEPT !.string = k])]

RemoveAt(s, i) == SubSeq(s, 1, i - 1) \o SubSeq(s, i + 1, Len(s))

cJSON_DeleteItemFromObject(o, k) ==
  LET i == IF k = NULLSTR THEN 0 ELSE FindItem(o.child, k, 1) IN
  IF i = 0 THEN o ELSE [Written(o) EXCEPT !.child = RemoveAt(o.child, i)]

\* cJSON_DeleteItemFromArray / cJSON_DetachItemFromArray: the array left.
cJSON_DeleteItemFromArray(a, i) ==
  IF i < 0 \/ i >= Len(a.child) THEN a
  ELSE [Written(a) EXCEPT !.child = RemoveAt(a.child, i + 1)]

cJSON_InsertItemInArray(a, i, item) ==
  IF i < 0 THEN a
  ELSE IF i >= Len(a.child) THEN cJSON_AddItemToArray(a, item)
  ELSE [Written(a) EXCEPT !.child =
          SubSeq(a.child, 1, i) \o <<item>> \o SubSeq(a.child, i + 1, Len(a.child))]

cJSON_ReplaceItemInArray(a, i, item) ==
  IF i < 0 \/ i >= Len(a.child) THEN a
  ELSE [Written(a) EXCEPT !.child = [a.child EXCEPT ![i + 1] = item]]

\* cJSON_Duplicate(item, 1): a deep copy; the copy is no reference.
RECURSIVE cJSON_Duplicate(_)
cJSON_Duplicate(v) ==
  IF v = NULL THEN NULL
  ELSE [v EXCEPT !.ref = FALSE, !.own = "heap", !.kown = "heap", !.w = FALSE,
                 !.child = [i \in DOMAIN v.child |-> cJSON_Duplicate(v.child[i])]]

\* ------------------------------------------------------------- equality
RECURSIVE json_value_equal(_, _, _)
\* left and right are distinct pointers here; the callers model the
\* `left == right` fast path where one node can reach both arguments.
json_value_equal(left, right, strict) ==
  IF left = NULL /\ right = NULL THEN TRUE
  ELSE IF left = NULL \/ right = NULL THEN FALSE
  ELSE IF left.type # right.type \/ left.ref # right.ref THEN FALSE
  ELSE IF left.ref THEN FALSE   \* no case of the switch has the reference bit
  ELSE CASE left.type = "null" -> TRUE
         [] left.type \in {"true", "false"} -> TRUE
         [] left.type = "number" ->
              IF strict THEN left.valuedouble = right.valuedouble
              ELSE /\ left.valuedouble[1] = right.valuedouble[1]
                   /\ left.valuedouble[2] - right.valuedouble[2] < 2
                   /\ right.valuedouble[2] - left.valuedouble[2] < 2
         [] left.type = "string" -> left.valuestring = right.valuestring
         [] left.type = "array" ->
              /\ Len(left.child) = Len(right.child)
              /\ \A i \in DOMAIN left.child :
                   json_value_equal(left.child[i], right.child[i], strict)
         [] left.type = "object" ->
              /\ Len(left.child) = Len(right.child)
              /\ \A i \in DOMAIN left.child :
                   LET right_item == cJSON_GetObjectItem(right, left.child[i].string)
                   IN /\ right_item # NULL
                      /\ json_value_equal(left.child[i], right_item, strict)
         [] OTHER -> FALSE

\* ------------------------------------------------------ delta primitives
\* The scalar branches every copy site repeats: a new string, number, bool
\* or null node.
CopyScalar(v) ==
  IF cJSON_IsString(v) THEN cJSON_CreateString(v.valuestring)
  ELSE IF cJSON_IsNumber(v) THEN cJSON_CreateNumber(v.valuedouble)
  ELSE IF cJSON_IsBool(v) THEN cJSON_CreateBool(cJSON_IsTrue(v))
  ELSE cJSON_CreateNull

\* The value clone_shallow makes for the i-th child of v: a reference built
\* on the child (hence on the chain from the child to the end of v's list)
\* for a container, a new node for a scalar.
CloneChild(v, i) ==
  LET ch == v.child[i]
      rest == SubSeq(v.child, i, Len(v.child))
  IN IF cJSON_IsObject(ch) THEN cJSON_CreateObjectReference(rest)
     ELSE IF cJSON_IsArray(ch) THEN cJSON_CreateArrayReference(rest)
     ELSE CopyScalar(ch)

RECURSIVE CloneInto(_, _, _)
CloneInto(acc, v, i) ==
  IF i > Len(v.child) THEN acc
  ELSE CloneInto(
         IF cJSON_IsObject(v)
         THEN cJSON_AddItemToObject(acc,
                IF v.child[i].string # NULLSTR THEN v.child[i].string ELSE <<>>,
                CloneChild(v, i))
         ELSE cJSON_AddItemToArray(acc, CloneChild(v, i)),
         v, i + 1)

clone_shallow(v) ==
  IF v = NULL THEN cJSON_CreateNull
  ELSE IF cJSON_IsObject(v) THEN CloneInto(cJSON_CreateObject, v, 1)
  ELSE IF cJSON_IsArray(v) THEN CloneInto(cJSON_CreateArray, v, 1)
  ELSE CopyScalar(v)

create_change_array(old_val, new_val) ==
  cJSON_AddItemToArray(
    cJSON_AddItemToArray(cJSON_CreateArray, clone_shallow(old_val)),
    clone_shallow(new_val))

create_addition_array(new_val) ==
  cJSON_AddItemToArray(cJSON_CreateArray, clone_shallow(new_val))

DeletedItem(old_val) ==
  IF cJSON_IsObject(old_val) \/ cJSON_IsArray(old_val)
  THEN cJSON_Duplicate(old_val)
  ELSE CopyScalar(old_val)

create_deletion_array(old_val) ==
  cJSON_AddItemToArray(
    cJSON_AddItemToArray(
      cJSON_AddItemToArray(cJSON_CreateArray, DeletedItem(old_val)),
      cJSON_CreateNumber(<<0, 0>>)),
    cJSON_CreateNumber(<<0, 0>>))

\* ------------------------------------------------------------ key index
\* qsort(arr, n, sizeof *arr, cmp_key_item) by insertion; members with the
\* same key keep their order (what glibc's merge sort does).
RECURSIVE InsertSorted(_, _)
InsertSorted(arr, item) ==
  IF arr = <<>> THEN <<item>>
  ELSE IF strcmp(arr[Len(arr)].string, item.string) <= 0 THEN Append(arr, item)
  ELSE Append(InsertSorted(SubSeq(arr, 1, Len(arr) - 1), item), arr[Len(arr)])

RECURSIVE SortFrom(_, _, _)
SortFrom(ch, i, acc) ==
  IF i > Len(ch) THEN acc ELSE SortFrom(ch, i + 1, InsertSorted(acc, ch[i]))

\* build_key_index(obj, &out): the members of obj sorted by key.
build_key_index(obj) == SortFrom(obj.child, 1, <<>>)

\* index_get(arr, n, key): binary search, lo and hi from 0.
RECURSIVE index_search(_, _, _, _)
index_search(arr, key, lo, hi) ==
  IF lo > hi THEN NULL
  ELSE LET mid == lo + (hi - lo) \div 2
           cmp == strcmp(key, arr[mid + 1].string)
       IN IF cmp = 0 THEN arr[mid + 1]
          ELSE IF cmp < 0 THEN index_search(arr, key, lo, mid - 1)
          ELSE index_search(arr, key, mid + 1, hi)

index_get(arr, key) ==
  IF Len(arr) <= 0 \/ key = NULLSTR THEN NULL
  ELSE index_search(arr, key, 0, Len(arr) - 1)

\* ------------------------------------------------------------ allocator
\* What a call reads and writes besides its arguments: `depth` is the
\* thread-local json_diff_depth, `hooks` the allocator cJSON_InitHooks last
\* installed (global_hooks of cJSON.c, one for the whole process), `cur` is
\* current_arena != NULL on the calling thread, and `arena` the struct
\* json_diff_arena that current_arena points to, with the list of the blocks
\* arena_malloc has handed out ([off, size], oldest first) and `badfree`,
\* set when free() was given a block of the arena.
\* Every function of the differ returns [res, env]: its return value and env
\* when it returns.
RetE(r, e) == [res |-> r, env |-> e]

\* arena_malloc(size): [ok, env], ok = FALSE for a NULL return.  The tests
\* against SIZE_MAX are left out: offsets stay below MAX_ARENA_SIZE.
RECURSIVE GrowCap(_, _)
GrowCap(newcap, need) ==
  IF newcap >= need \/ newcap > MAX_ARENA_SIZE THEN newcap
  ELSE GrowCap(newcap * 2, need)

arena_malloc(env, size) ==
  IF ~env.cur THEN [ok |-> FALSE, env |-> env]
  ELSE
    LET a == env.arena
        off == ((a.offset + SizeofPtr - 1) \div SizeofPtr) * SizeofPtr
        cap0 == IF a.capacity # 0 THEN a.capacity * 2 ELSE size * 2
        newcap == GrowCap(IF cap0 < size THEN size * 2 ELSE cap0, off + size)
    IN IF off + size > a.capacity /\ newcap > MAX_ARENA_SIZE
       THEN [ok |-> FALSE, env |-> env]
       ELSE [ok |-> TRUE,
             env |-> [env EXCEPT
                        !.arena.capacity =
                          IF off + size > @ THEN newcap ELSE @,
                        !.arena.offset = off + size,
                        !.arena.blocks =
                          Append(@, [off |-> off, size |-> size])]]

\* The allocations in a row that building a tree makes.
RECURSIVE arena_mallocs(_, _, _)
arena_mallocs(env, sizes, n) ==
  IF n > Len(sizes) THEN [ok |-> TRUE, env |-> env]
  ELSE Only({ IF m.ok THEN arena_mallocs(m.env, sizes, n + 1)
              ELSE [ok |-> FALSE, env |-> env]
              : m \in {arena_malloc(env, sizes[n])} })

\* The sizes cJSON asks the allocator for when it builds the new nodes of v:
\* sizeof(cJSON) for a node, strlen + 1 for a valuestring and for a key.
RECURSIVE AllocSizes(_)
RECURSIVE AllocSizesOf(_, _)
AllocSizesOf(ch, i) ==
  IF i > Len(ch) THEN <<>> ELSE AllocSizes(ch[i]) \o AllocSizesOf(ch, i + 1)

AllocSizes(v) ==
  IF v = NULL \/ v.own # "heap" THEN <<>>
  ELSE <<SizeofCJSON>>
       \o (IF v.type = "string" THEN <<Len(v.valuestring) + 1>> ELSE <<>>)
       \o AllocSizesOf(v.child, 1)
       \o (IF v.string # NULLSTR THEN <<Len(v.string) + 1>> ELSE <<>>)

\* The new nodes of v and their keys, as blocks of the arena.
RECURSIVE InArena(_)
InArena(v) ==
  IF v.own # "heap" THEN v
  ELSE [v EXCEPT !.own = "arena",
                 !.kown = IF v.string # NULLSTR THEN "arena" ELSE @,
                 !.child = [i \in DOMAIN v.child |-> InArena(v.child[i])]]

\* A tree v that a cJSON_Create... call or one of the delta primitives has
\* just built, as the installed allocator leaves it: NULL when arena_malloc
\* returned NULL.
New(env, v) ==
  IF env.hooks = "malloc" THEN RetE(v, env)
  ELSE Only({ IF m.ok THEN RetE(InArena(v), m.env) ELSE RetE(NULL, env)
              : m \in {arena_mallocs(env, AllocSizes(v), 1)} })

\* cJSON_AddItemToObject(o, k, item) under the installed allocator: the key
\* is copied with cJSON_strdup, and nothing is added when that fails.
AddItem(env, o, k, item) ==
  IF env.hooks = "malloc" THEN RetE(cJSON_AddItemToObject(o, k, item), env)
  ELSE Only({ IF m.ok
              THEN RetE(cJSON_AddItemToObject(
                          o, k, [item EXCEPT !.kown = "arena"]), m.env)
              ELSE RetE(o, env)
              : m \in {arena_malloc(env, Len(k) + 1)} })

\* cJSON_Delete(v) under the installed allocator: arena_free does nothing,
\* free() is given every node of v.
Free(env, v) ==
  IF v # NULL /\ env.hooks = "malloc" /\ v.own = "arena"
  THEN [env EXCEPT !.arena.badfree = TRUE] ELSE env

\* x = create_...(); if (x) { cJSON_AddItemToObject(diff_obj, k, x);
\* has_changes = true; } on st = [d, hc, env, ...].
Put(st, k, v) ==
  Only({ IF n.res = NULL THEN [st EXCEPT !.env = n.env]
         ELSE Only({ [st EXCEPT !.d = a.res, !.hc = TRUE, !.env = a.env]
                     : a \in {AddItem(n.env, st.d, k, n.res)} })
         : n \in {New(st.env, v)} })

\* sub = json_diff(...); if (sub) { cJSON_AddItemToObject(diff_obj, k, sub);
\* has_changes = true; }, sub = [res, env] being what json_diff returned.
Link(st, k, sub) ==
  IF sub.res = NULL THEN [st EXCEPT !.env = sub.env]
  ELSE Only({ [st EXCEPT !.d = a.res, !.hc = TRUE, !.env = a.env]
              : a \in {AddItem(sub.env, st.d, k, sub.res)} })

\* ------------------------------------------------------------------ diff
ARRAY_MARKER == <<"_", "t">>
ARRAY_MARKER_VALUE == "a"

\* The candidate indices transform_array_object_changes collects: numeric
\* keys whose value is a one-element array holding an object.
RECURSIVE CandidateIdxs(_, _)
CandidateIdxs(ch, i) ==
  IF i > Len(ch) THEN <<>>
  ELSE LET k == ch[i].string
           ok == /\ k # NULLSTR
                 /\ ~(k # <<>> /\ Head(k) = "_")
                 /\ cJSON_IsArray(ch[i]) /\ cJSON_GetArraySize(ch[i]) = 1
                 /\ cJSON_IsObject(cJSON_GetArrayItem(ch[i], 0))
                 /\ IndexOk(k)
       IN (IF ok THEN <<strtol(k).val>> ELSE <<>>) \o CandidateIdxs(ch, i + 1)

RECURSIVE json_diff(_, _, _, _, _)
RECURSIVE do_json_diff(_, _, _, _, _)
RECURSIVE myers_diff_arrays(_, _, _, _)
RECURSIVE myers_pairs(_, _, _, _)
RECURSIVE transform_array_object_changes(_, _, _, _)
RECURSIVE diff_left_keys(_, _, _, _, _)

\* The loop over idxs of transform_array_object_changes; st = [d, hc, env].
transform_array_object_changes(st, idxs, n, opts) ==
  IF n > Len(idxs) THEN st
  ELSE
    LET keybuf == snprintf_d(idxs[n])
        delbuf == snprintf_ud(idxs[n])
        add == cJSON_GetObjectItem(st.d, keybuf)
        del == cJSON_GetObjectItem(st.d, delbuf)
        new_obj == cJSON_GetArrayItem(add, 0)
        old_obj == cJSON_GetArrayItem(del, 0)
        z1 == cJSON_GetArrayItem(del, 1)
        z2 == cJSON_GetArrayItem(del, 2)
        pair == /\ add # NULL /\ del # NULL
                /\ cJSON_IsArray(add) /\ cJSON_GetArraySize(add) = 1
                /\ cJSON_IsObject(new_obj)
                /\ cJSON_IsArray(del) /\ cJSON_GetArraySize(del) = 3
                /\ cJSON_IsObject(old_obj)
                /\ cJSON_IsNumber(z1) /\ cJSON_IsNumber(z2)
                /\ z1.valuedouble = <<0, 0>> /\ z2.valuedouble = <<0, 0>>
    IN IF ~pair THEN transform_array_object_changes(st, idxs, n + 1, opts)
       ELSE Only({
         transform_array_object_changes(
           Link([st EXCEPT !.d = cJSON_DeleteItemFromObject(
                                   cJSON_DeleteItemFromObject(@, delbuf),
                                   keybuf)],
                keybuf,
                RetE(nested.res, Free(Free(nested.env, del), add))),
           idxs, n + 1, opts)
         : nested \in {json_diff(old_obj, new_obj, FALSE, opts, st.env)} })

\* The main loop of myers_diff_arrays and the two loops after it;
\* st = [i, j, d, hc, env]: indices, diff_obj, has_changes, env.
myers_pairs(left, right, opts, st) ==
  LET left_size == cJSON_GetArraySize(left)
      right_size == cJSON_GetArraySize(right)
      i == st.i
      j == st.j
      li == cJSON_GetArrayItem(left, i)
      ri == cJSON_GetArrayItem(right, j)
  IN
  IF i < left_size /\ j < right_size THEN
    IF json_value_equal(li, ri, opts.strict_equality)
    THEN myers_pairs(left, right, opts, [st EXCEPT !.i = i + 1, !.j = j + 1])
    ELSE IF (i + 1) < left_size
            /\ json_value_equal(cJSON_GetArrayItem(left, i + 1), ri,
                                opts.strict_equality)
    THEN myers_pairs(left, right, opts,
           [Put(st, snprintf_ud(i), create_deletion_array(li))
              EXCEPT !.i = i + 1])
    ELSE IF (j + 1) < right_size
            /\ json_value_equal(li, cJSON_GetArrayItem(right, j + 1),
                                opts.strict_equality)
    THEN myers_pairs(left, right, opts,
           [Put(st, snprintf_d(i), create_addition_array(ri))
              EXCEPT !.j = j + 1])
    ELSE IF cJSON_IsObject(li) /\ cJSON_IsObject(ri)
    THEN Only({
         myers_pairs(left, right, opts,
           [Link(st, snprintf_d(i), sub) EXCEPT !.i = i + 1, !.j = j + 1])
         : sub \in {json_diff(li, ri, FALSE, opts, st.env)} })
    ELSE myers_pairs(left, right, opts,
           [Put(Put(st, snprintf_d(i), create_addition_array(ri)),
                snprintf_ud(i), create_deletion_array(li))
              EXCEPT !.i = i + 1, !.j = j + 1])
  ELSE IF i < left_size THEN       \* remaining deletions
    myers_pairs(left, right, opts,
      [Put(st, snprintf_ud(i), create_deletion_array(li)) EXCEPT !.i = i + 1])
  ELSE IF j < right_size THEN      \* remaining insertions, keyed by i
    myers_pairs(left, right, opts,
      [Put(st, snprintf_d(i), create_addition_array(ri))
         EXCEPT !.i = i + 1, !.j = j + 1])
  ELSE st

HasNonMarker(d) ==
  \E n \in DOMAIN d.child : strcmp(d.child[n].string, ARRAY_MARKER) # 0

\* The array differ fails with NULL when diff_obj cannot be allocated.
myers_diff_arrays(left, right, opts, env) ==
  IF /\ cJSON_GetArraySize(left) = cJSON_GetArraySize(right)
     /\ \A k \in DOMAIN left.child :
          json_value_equal(left.child[k], right.child[k],
                           opts.strict_equality)
  THEN RetE(NULL, env)
  ELSE Only({
    IF diff_obj.res = NULL THEN RetE(NULL, diff_obj.env)
    ELSE Only({
      IF ~st.hc THEN RetE(NULL, Free(st.env, st.d))
      ELSE Only({
        IF HasNonMarker(tr.d)
        THEN Only({ RetE(mk.d, mk.env)
                    : mk \in {Put(tr, ARRAY_MARKER,
                                  cJSON_CreateString(ARRAY_MARKER_VALUE))} })
        ELSE RetE(NULL, Free(tr.env, tr.d))
        : tr \in {transform_array_object_changes(
                    [d |-> st.d, hc |-> TRUE, env |-> st.env],
                    CandidateIdxs(st.d.child, 1), 1, opts)} })
      : st \in {myers_pairs(left, right, opts,
                  [i |-> 0, j |-> 0, d |-> diff_obj.res, hc |-> FALSE,
                   env |-> diff_obj.env])} })
    : diff_obj \in {New(env, cJSON_CreateObject)} })

diff_arrays(left, right, opts, env) ==
  myers_diff_arrays(left, right, opts, env)

\* "Keys present in left: diff or deletion"; st = [d, hc, env].
diff_left_keys(left_index, right_index, i, opts, st) ==
  IF i > Len(left_index) THEN st
  ELSE
    LET key == left_index[i].string
        li == left_index[i]
        ri == index_get(right_index, key)
    IN IF ri = NULL
       THEN diff_left_keys(left_index, right_index, i + 1, opts,
              Put(st, key, create_deletion_array(li)))
       ELSE Only({
            diff_left_keys(left_index, right_index, i + 1, opts,
                           Link(st, key, sd))
            : sd \in {json_diff(li, ri, FALSE, opts, st.env)} })

\* "Keys present only in right: additions".
RECURSIVE diff_right_keys(_, _, _, _)
diff_right_keys(left_index, right_index, i, st) ==
  IF i > Len(right_index) THEN st
  ELSE
    LET key == right_index[i].string IN
    IF index_get(left_index, key) = NULL
    THEN diff_right_keys(left_index, right_index, i + 1,
           Put(st, key, create_addition_array(right_index[i])))
    ELSE diff_right_keys(left_index, right_index, i + 1, st)

\* The body of do_json_diff after its depth guard has let the call in.
DiffBody(left, right, same, opts, env) ==
  IF same \/ json_value_equal(left, right, opts.strict_equality)
  THEN RetE(NULL, env)
  ELSE IF left = NULL \/ right = NULL
          \/ left.type # right.type \/ left.ref # right.ref
  THEN New(env, create_change_array(left, right))
  ELSE IF left.ref \/ left.type \notin {"object", "array"}
  THEN New(env, create_change_array(left, right))
  ELSE IF left.type = "array" THEN diff_arrays(left, right, opts, env)
  ELSE Only({
    IF diff_obj.res = NULL THEN RetE(NULL, diff_obj.env)
    ELSE Only({
      Only({ IF s2.hc THEN RetE(s2.d, s2.env)
             ELSE RetE(NULL, Free(s2.env, s2.d))
             : s2 \in {diff_right_keys(left_index, right_index, 1,
                         diff_left_keys(left_index, right_index, 1, opts,
                           [d |-> diff_obj.res, hc |-> FALSE,
                            env |-> diff_obj.env]))} })
      : right_index \in {build_key_index(right)},
        left_index \in {build_key_index(left)} })
    : diff_obj \in {New(env, cJSON_CreateObject)} })

\* do_json_diff: the guard returns without taking its increment back;
\* `finish` decrements.
do_json_diff(left, right, same, opts, env) ==
  IF env.depth + 1 > MAX_JSON_DEPTH
  THEN RetE(NULL, [env EXCEPT !.depth = @ + 1])
  ELSE Only({ RetE(r.res, [r.env EXCEPT !.depth = @ - 1])
              : r \in {DiffBody(left, right, same, opts,
                                [env EXCEPT !.depth = @ + 1])} })

\* json_diff before do_json_diff: `if (opts->arena) { current_arena =
\* opts->arena; opts->arena->offset = 0; cJSON_InitHooks(&h); }`.
ArenaSetup(opts, env) ==
  IF opts.arena
  THEN [env EXCEPT !.cur = TRUE, !.arena.offset = 0, !.hooks = "arena"]
  ELSE env

\* json_diff after do_json_diff: `if (opts->arena) { cJSON_InitHooks(&h);
\* current_arena = NULL; }`.
ArenaTeardown(opts, env) ==
  IF opts.arena THEN [env EXCEPT !.hooks = "malloc", !.cur = FALSE] ELSE env

\* json_diff without the `--json_diff_depth` of json_diff.c:1232.
json_diff_leaky(left, right, same, opts, env) ==
  IF env.depth + 1 > MAX_JSON_DEPTH THEN RetE(NULL, env)
  ELSE Only({ RetE(r.res, ArenaTeardown(opts, r.env))
              : r \in {do_json_diff(left, right, same, opts,
                         ArenaSetup(opts, [env EXCEPT !.depth = @ + 1]))} })

\* json_diff(left, right, opts); `same`: left and right are one pointer.
json_diff(left, right, same, opts, env) ==
  IF env.depth + 1 > MAX_JSON_DEPTH THEN RetE(NULL, env)
  ELSE Only({ RetE(r.res, [ArenaTeardown(opts, r.env) EXCEPT !.depth = @ - 1])
              : r \in {do_json_diff(left, right, same, opts,
                         ArenaSetup(opts, [env EXCEPT !.depth = @ + 1]))} })

\* Every function of the patcher returns [res, depth]: its return value and
\* the thread-local json_patch_depth when it returns.
Ret(r, d) == [res |-> r, depth |-> d]

\* ------------------------------------------------------- building inputs
\* What the caller's parser or builder calls produce: plain trees.
Num(i) == cJSON_CreateNumber(<<i, 0>>)
Str(s) == cJSON_CreateString(s)
Arr(items) == [cJSON_CreateArray EXCEPT !.child = items]
\* members: a sequence of <<key, value>> pairs, in insertion order.
Obj(members) ==
  [cJSON_CreateObject EXCEPT !.child =
     [i \in DOMAIN members |-> [members[i][2] EXCEPT !.string = members[i][1]]]]

\* The tree v as a tree of allocation o (every node of it).
RECURSIVE Own(_, _)
Own(v, o) ==
  IF v = NULL THEN NULL
  ELSE [v EXCEPT !.own = o,
                 !.child = [i \in DOMAIN v.child |-> Own(v.child[i], o)]]

\* --------------------------------------------------------------- patch
StartsUnderscore(k) == k # <<>> /\ Head(k) = "_"

\* (int)node->valuedouble: truncation towards zero.
ToInt(v) ==
  IF v.valuedouble[1] < 0 /\ v.valuedouble[2] > 0
  THEN v.valuedouble[1] + 1 ELSE v.valuedouble[1]

\* The copy every "addition" / "replacement" branch of the patcher makes of
\* a value taken from the delta: a deep copy of a container, a new scalar.
CopyValue(src_val) ==
  IF cJSON_IsObject(src_val) \/ cJSON_IsArray(src_val)
  THEN cJSON_Duplicate(src_val)
  ELSE CopyScalar(src_val)

\* What json_patch returns where it gives `original` back: a reference
\* built on original (its list: original and the siblings after it) for a
\* container, a new scalar otherwise.
ReturnOriginal(original, onext) ==
  IF cJSON_IsObject(original) THEN cJSON_CreateObjectReference(<<original>> \o onext)
  ELSE IF cJSON_IsArray(original) THEN cJSON_CreateArrayReference(<<original>> \o onext)
  ELSE CopyScalar(original)

\* A node the call has released (cJSON_Delete frees the members of a
\* container that is no reference).
FreeNode(n) ==
  IF n.own # "heap" THEN n
  ELSE IF n.ref THEN [n EXCEPT !.own = "freed"] ELSE Own(n, "freed")

\* `patched` was computed from a node of the call's own (orig_val) that the
\* caller then deletes: the references json_patch built on orig_val or on
\* its members now point at released nodes.
RECURSIVE Dangle(_)
Dangle(p) ==
  IF p.ref THEN [p EXCEPT !.child = [i \in DOMAIN @ |-> FreeNode(@[i])]]
  ELSE [p EXCEPT !.child = [i \in DOMAIN @ |-> Dangle(@[i])]]

AfterDelete(patched) ==
  IF patched.ref
  THEN [patched EXCEPT !.child =
          [i \in DOMAIN @ |-> IF i = 1 THEN FreeNode(@[i]) ELSE @[i]]]
  ELSE Dangle(patched)

IsMoveOp(it) ==
  /\ cJSON_IsArray(it) /\ cJSON_GetArraySize(it) = 3
  /\ cJSON_IsString(cJSON_GetArrayItem(it, 0))
  /\ cJSON_IsNumber(cJSON_GetArrayItem(it, 1))
  /\ cJSON_IsNumber(cJSON_GetArrayItem(it, 2))
  /\ ToInt(cJSON_GetArrayItem(it, 2)) = 3

\* The test the deletion pass uses to skip a move (it does not look at v1).
IsMoveOpLoose(it) ==
  /\ cJSON_IsArray(it) /\ cJSON_GetArraySize(it) = 3
  /\ cJSON_IsString(cJSON_GetArrayItem(it, 0))
  /\ cJSON_IsNumber(cJSON_GetArrayItem(it, 2))
  /\ ToInt(cJSON_GetArrayItem(it, 2)) = 3

\* First pass of patch_array: replace_indices.
RECURSIVE replace_indices(_, _)
replace_indices(ch, n) ==
  IF n > Len(ch) THEN <<>>
  ELSE LET it == ch[n]
           k == it.string
           hit == /\ k # NULLSTR /\ strcmp(k, ARRAY_MARKER) # 0
                  /\ ~StartsUnderscore(k)
                  /\ cJSON_IsArray(it) /\ cJSON_GetArraySize(it) = 1
                  /\ IndexOk(k)
       IN (IF hit THEN <<strtol(k).val>> ELSE <<>>) \o replace_indices(ch, n + 1)

\* First pass of patch_array: the move ops, as [src, dest], in delta order.
\* strtol(k + 1, NULL, 10) is taken without looking at what follows it.
RECURSIVE collect_moves(_, _)
collect_moves(ch, n) ==
  IF n > Len(ch) THEN <<>>
  ELSE LET it == ch[n]
           k == it.string
           r == strtol(Tail(k))
           hit == /\ k # NULLSTR /\ strcmp(k, ARRAY_MARKER) # 0
                  /\ StartsUnderscore(k)
                  /\ IsMoveOp(it)
                  /\ ~r.neg /\ ~r.big
       IN (IF hit THEN <<[src |-> r.val,
                          dest |-> ToInt(cJSON_GetArrayItem(it, 1))]>>
           ELSE <<>>) \o collect_moves(ch, n + 1)

\* "Collect deletion indices".
RECURSIVE delete_indices(_, _, _)
delete_indices(ch, n, repl) ==
  IF n > Len(ch) THEN <<>>
  ELSE LET it == ch[n]
           key == it.string
           hit == /\ StartsUnderscore(key) /\ strcmp(key, ARRAY_MARKER) # 0
                  /\ IndexOk(Tail(key))
                  /\ ~IsMoveOpLoose(it)
                  /\ \A r \in DOMAIN repl : repl[r] # strtol(Tail(key)).val
       IN (IF hit THEN <<strtol(Tail(key)).val>> ELSE <<>>)
          \o delete_indices(ch, n + 1, repl)

\* "Sort deletion indices in descending order" (the result of the exchange
\* sort), by insertion.
RECURSIVE SortDesc(_)
SortDesc(s) ==
  IF s = <<>> THEN <<>>
  ELSE LET m == CHOOSE i \in DOMAIN s : \A j \in DOMAIN s : s[j] <= s[i]
       IN <<s[m]>> \o SortDesc(RemoveAt(s, m))

RECURSIVE apply_deletions(_, _, _)
apply_deletions(working, idx, n) ==
  IF n > Len(idx) THEN working
  ELSE apply_deletions(
         IF idx[n] >= 0 /\ idx[n] < cJSON_GetArraySize(working)
         THEN cJSON_DeleteItemFromArray(working, idx[n]) ELSE working,
         idx, n + 1)

\* The insertion sort of the moves by ascending dest (ties keep their order).
RECURSIVE InsertMove(_, _)
InsertMove(ms, m) ==
  IF ms = <<>> THEN <<m>>
  ELSE IF ms[Len(ms)].dest > m.dest
       THEN Append(InsertMove(SubSeq(ms, 1, Len(ms) - 1), m), ms[Len(ms)])
  ELSE Append(ms, m)

RECURSIVE SortMoves(_, _, _)
SortMoves(ms, n, acc) ==
  IF n > Len(ms) THEN acc ELSE SortMoves(ms, n + 1, InsertMove(acc, ms[n]))

\* Index (from 0) of the first element of working equal to src_item, -1.
RECURSIVE FindEqual(_, _, _)
FindEqual(working, src_item, t) ==
  IF t >= cJSON_GetArraySize(working) THEN -1
  ELSE IF json_value_equal(cJSON_GetArrayItem(working, t), src_item, TRUE) THEN t
  ELSE FindEqual(working, src_item, t + 1)

RECURSIVE apply_moves(_, _, _, _)
apply_moves(working, original, ms, n) ==
  IF n > Len(ms) THEN working
  ELSE
    LET src_item == cJSON_GetArrayItem(original, ms[n].src)
        cur == FindEqual(working, src_item, 0)
    IN IF ms[n].src < 0 \/ src_item = NULL \/ cur < 0
       THEN apply_moves(working, original, ms, n + 1)
       ELSE LET node == cJSON_GetArrayItem(working, cur)
                det == cJSON_DeleteItemFromArray(working, cur)
                dest == IF ms[n].dest < 0 THEN 0 ELSE ms[n].dest
            IN apply_moves(
                 IF dest >= cJSON_GetArraySize(det)
                 THEN cJSON_AddItemToArray(det, node)
                 ELSE cJSON_InsertItemInArray(det, dest, node),
                 original, ms, n + 1)

\* patch_array's unwrapping of `original` before it is copied.
Unwrapped(original) ==
  LET o1 == IF /\ ~cJSON_IsArray(original) /\ cJSON_IsObject(original)
               /\ Len(original.child) = 1 /\ cJSON_IsArray(original.child[1])
            THEN original.child[1] ELSE original
  IN IF /\ cJSON_IsArray(o1) /\ cJSON_GetArraySize(o1) = 1
        /\ cJSON_IsArray(cJSON_GetArrayItem(o1, 0))
     THEN cJSON_GetArrayItem(o1, 0) ELSE o1

\* The working array taken to be the original itself, not a copy of it.
WorkingCopy_alias(original) == original

\* "Start from a deep copy of the original array to avoid aliasing".
WorkingCopy(original) == cJSON_Duplicate(original)

RECURSIVE json_patch(_, _, _, _)
RECURSIVE patch_array(_, _, _)
RECURSIVE apply_additions(_, _, _)
RECURSIVE apply_object_delta(_, _, _)

\* "Now apply additions and modifications"; st = [res, depth], res the
\* working array.
apply_additions(st, ch, n) ==
  IF n > Len(ch) THEN st
  ELSE
    LET diff_item == ch[n]
        key == diff_item.string
        working == st.res
        index == strtol(key).val
        size == cJSON_GetArraySize(diff_item)
    IN
    IF strcmp(key, ARRAY_MARKER) = 0 \/ StartsUnderscore(key) \/ ~IndexOk(key)
    THEN apply_additions(st, ch, n + 1)
    ELSE IF cJSON_IsArray(diff_item) THEN
      IF size = 1 THEN
        LET new_val == CopyValue(cJSON_GetArrayItem(diff_item, 0)) IN
        apply_additions(
          [st EXCEPT !.res =
             IF index < cJSON_GetArraySize(working)
             THEN cJSON_ReplaceItemInArray(working, index, new_val)
             ELSE cJSON_AddItemToArray(working, new_val)],
          ch, n + 1)
      ELSE IF size = 2 THEN
        LET new_val == CopyValue(cJSON_GetArrayItem(diff_item, 1)) IN
        apply_additions(
          [st EXCEPT !.res =
             IF index < cJSON_GetArraySize(working)
             THEN cJSON_ReplaceItemInArray(working, index, new_val)
             ELSE working],
          ch, n + 1)
      ELSE apply_additions(st, ch, n + 1)
    ELSE IF index < cJSON_GetArraySize(working) THEN
      Only({
        apply_additions(
           [res |-> IF p.res # NULL
                    THEN cJSON_ReplaceItemInArray(working, index,
                                                  AfterDelete(p.res))
                    ELSE working,
            depth |-> p.depth],
           ch, n + 1)
        : p \in {json_patch(cJSON_GetArrayItem(working, index),
                    SubSeq(working.child, index + 2, Len(working.child)),
                    diff_item, st.depth)} })
    ELSE apply_additions(st, ch, n + 1)

patch_array(original0, diff, depth) ==
  LET original == Unwrapped(original0)
      working_array == WorkingCopy(original)
      repl == replace_indices(diff.child, 1)
      moves == SortMoves(collect_moves(diff.child, 1), 1, <<>>)
      dels == SortDesc(delete_indices(diff.child, 1, repl))
      w1 == apply_deletions(working_array, dels, 1)
      w2 == apply_moves(w1, original, moves, 1)
  IN apply_additions(Ret(w2, depth), diff.child, 1)

\* "Copy original object structure": the members of the new object.
RECURSIVE copy_members(_, _, _)
copy_members(result, original, n) ==
  IF n > Len(original.child) THEN result
  ELSE LET orig_item == original.child[n]
           rest == SubSeq(original.child, n, Len(original.child))
           copy_item ==
             IF cJSON_IsObject(orig_item) THEN cJSON_CreateObjectReference(rest)
             ELSE IF cJSON_IsArray(orig_item) THEN cJSON_CreateArrayReference(rest)
             ELSE CopyScalar(orig_item)
       IN copy_members(cJSON_AddItemToObject(result, orig_item.string, copy_item),
                       original, n + 1)

\* "Apply all changes from diff"; st = [res, depth], res the new object.
apply_object_delta(st, ch, n) ==
  IF n > Len(ch) THEN st
  ELSE
    LET diff_item == ch[n]
        key == diff_item.string
        result == st.res
        size == cJSON_GetArraySize(diff_item)
    IN
    IF cJSON_IsArray(diff_item) THEN
      IF size = 1 \/ size = 2 THEN
        LET new_val == CopyValue(cJSON_GetArrayItem(diff_item, size - 1)) IN
        apply_object_delta(
          [st EXCEPT !.res = cJSON_AddItemToObject(
                               cJSON_DeleteItemFromObject(result, key),
                               key, new_val)],
          ch, n + 1)
      ELSE IF size = 3 THEN
        apply_object_delta(
          [st EXCEPT !.res = cJSON_DeleteItemFromObject(result, key)], ch, n + 1)
      ELSE apply_object_delta(st, ch, n + 1)
    ELSE
      LET at == IF key = NULLSTR THEN 0 ELSE FindItem(result.child, key, 1)
          found == IF at = 0 THEN NULL ELSE result.child[at]
          unwrap == found # NULL /\ found.ref /\ found.child # <<>>
          orig_val == IF unwrap THEN found.child[1] ELSE found
          onext == IF unwrap THEN Tail(found.child)
                   ELSE SubSeq(result.child, at + 1, Len(result.child))
      IN IF orig_val = NULL THEN apply_object_delta(st, ch, n + 1)
         ELSE Only({
           apply_object_delta(
             [res |-> IF p.res # NULL
                      THEN cJSON_AddItemToObject(
                             cJSON_DeleteItemFromObject(result, key), key,
                             IF unwrap THEN p.res ELSE AfterDelete(p.res))
                      ELSE result,
              depth |-> p.depth],
             ch, n + 1)
           : p \in {json_patch(orig_val, onext, diff_item, st.depth)} })

\* The value json_patch returns for a change array [old, new].
ChangeResult(diff) ==
  LET new_val == cJSON_GetArrayItem(diff, 1) IN
  IF cJSON_IsObject(new_val) THEN
    IF /\ Len(new_val.child) = 1
       /\ new_val.child[1].string # NULLSTR
       /\ Len(new_val.child[1].string) = 0
    THEN cJSON_CreateObjectReference(new_val.child)
    ELSE cJSON_CreateObjectReference(<<new_val>>)
  ELSE IF cJSON_IsArray(new_val) THEN cJSON_CreateArrayReference(<<new_val>>)
  ELSE CopyScalar(new_val)

\* json_patch(original, diff); onext: the siblings that follow original in
\* the list it is a member of; depth: json_patch_depth at the call.  Only
\* the NULL-argument exit and the end of the object path pass `out`, where
\* the counter is decremented.
json_patch(original, onext, diff, depth) ==
  IF depth + 1 > MAX_JSON_DEPTH THEN Ret(NULL, depth + 1)
  ELSE IF original = NULL \/ diff = NULL THEN Ret(NULL, depth)
  ELSE IF cJSON_IsArray(diff) /\ cJSON_GetArraySize(diff) = 2
  THEN Ret(ChangeResult(diff), depth + 1)
  ELSE IF ~cJSON_IsObject(diff)
  THEN Ret(ReturnOriginal(original, onext), depth + 1)
  ELSE IF cJSON_GetObjectItem(diff, ARRAY_MARKER) # NULL THEN
    IF cJSON_IsArray(original) THEN patch_array(original, diff, depth + 1)
    ELSE Ret(ReturnOriginal(original, onext), depth + 1)
  ELSE
    LET start == IF ~cJSON_IsObject(original) THEN cJSON_CreateObject
                 ELSE copy_members(cJSON_CreateObject, original, 1)
    IN Only({ Ret(r.res, r.depth - 1)
              : r \in {apply_object_delta(Ret(start, depth + 1),
                                          diff.child, 1)} })

\* ------------------------------------------------------------- inputs
K(c) == <<c>>
Eps == cJSON_CreateNumber(<<1, 1>>)      \* 1 + 5e-10

SeqsUpTo(S, n) == UNION {[1..k -> S] : k \in 0..n}

\* n objects nested under key "a" around leaf.
RECURSIVE Chain(_, _)
Chain(n, leaf) ==
  IF n = 0 THEN leaf ELSE Obj(<< <<K("a"), Chain(n - 1, leaf)>> >>)

\* Nesting depth: containers on the longest path from the root.
RECURSIVE Depth(_)
Max(S) == CHOOSE m \in S : \A x \in S : x <= m
Depth(v) ==
  IF v = NULL \/ v.type \notin {"array", "object"} THEN 0
  ELSE 1 + Max({0} \cup {Depth(v.child[i]) : i \in DOMAIN v.child})

Scalars ==
  {Num(1), Num(2), Eps, Str("s"), cJSON_CreateNull, cJSON_CreateBool(TRUE),
   Arr(<<>>), Obj(<<>>)}

Arrays == {Arr(s) : s \in SeqsUpTo({Num(1), Num(2)}, MaxArrLen)}

\* Members may repeat a key or differ from one another only in case, as in
\* what cJSON_Parse builds from {"a":1,"a":2} or {"a":1,"A":2}.
Objects ==
  {Obj(s) : s \in SeqsUpTo({K("a"), K("A")} \X {Num(1), Num(2)}, MaxObjLen)}

Nested ==
  {Num(1), Arr(<<>>), Arr(<<Eps>>), Arr(<<Num(1)>>),
   Arr(<<Arr(<<Num(1)>>)>>), Arr(<<Arr(<<Num(1)>>), Arr(<<Num(2)>>)>>),
   Obj(<< <<K("a"), Arr(<<Num(1)>>)>> >>),
   Obj(<< <<K("a"), Arr(<<Num(2), Num(1)>>)>> >>),
   Obj(<< <<K("a"), Obj(<< <<K("b"), Num(1)>> >>)>> >>),
   Obj(<< <<K("a"), Obj(<< <<K("b"), Eps>> >>)>> >>),
   Arr(<<Obj(<< <<K("x"), Arr(<<Num(1)>>)>>, <<K("b"), Num(1)>> >>)>>),
   Arr(<<Obj(<< <<K("x"), Arr(<<Num(1)>>)>>, <<K("b"), Num(2)>> >>)>>),
   Obj(<<>>), Obj(<< <<K("a"), Num(1)>> >>),
   Obj(<< <<K("a"), Arr(<<Arr(<<Num(1)>>)>>)>> >>),
   Obj(<< <<K("b"), Num(1)>>, <<K("a"), Num(1)>> >>),
   Obj(<< <<K("x"), Num(2)>>, <<K("b"), Num(2)>>, <<K("a"), Num(1)>> >>)}

\* The reference test vectors (tests/test_js_compat.c), as <<L, R, delta>>.
O1(k, v) == Obj(<< <<K(k), v>> >>)
Del(v) == Arr(<<v, Num(0), Num(0)>>)
Marker == <<ARRAY_MARKER, Str(ARRAY_MARKER_VALUE)>>
Scenarios ==
  << <<O1("1", Num(1)), O1("1", Num(2)),
       O1("1", Arr(<<Num(1), Num(2)>>))>>,
     <<O1("1", Arr(<<Num(1), Num(2), Num(3)>>)),
       O1("1", Arr(<<Num(1), Num(2), Num(4)>>)),
       O1("1", Obj(<< <<K("2"), Arr(<<Num(4)>>)>>,
                      <<<<"_", "2">>, Del(Num(3))>>, Marker >>))>>,
     <<O1("1", Arr(<<Num(1), Num(2), Num(3)>>)),
       O1("1", Arr(<<Num(2), Num(3)>>)),
       O1("1", Obj(<< <<<<"_", "0">>, Del(Num(1))>>, Marker >>))>>,
     <<O1("1", Arr(<<Num(1)>>)),
       O1("1", Arr(<<O1("1", Num(2))>>)),
       O1("1", Obj(<< <<K("0"), Arr(<<O1("1", Num(2))>>)>>,
                      <<<<"_", "0">>, Del(Num(1))>>, Marker >>))>>,
     <<O1("1", Arr(<<Num(1), O1("1", Num(1))>>)),
       O1("1", Arr(<<O1("1", Num(2))>>)),
       O1("1", Obj(<< <<K("0"), Arr(<<O1("1", Num(2))>>)>>,
                      <<<<"_", "0">>, Del(Num(1))>>,
                      <<<<"_", "1">>, Del(O1("1", Num(1)))>>, Marker >>))>>,
     <<Obj(<< <<K("a"), O1("x", Num(1))>>, <<K("b"), Num(2)>> >>),
       Obj(<< <<K("a"), O1("x", Num(2))>>, <<K("b"), Num(2)>> >>),
       O1("a", O1("x", Arr(<<Num(1), Num(2)>>)))>>,
     <<O1("1", Arr(<<O1("1", Num(1))>>)),
       O1("1", Arr(<<O1("1", Num(2))>>)),
       O1("1", Obj(<< <<K("0"), O1("1", Arr(<<Num(1), Num(2)>>))>>,
                      Marker >>))>> >>

ScenarioPairs == {<<Scenarios[n][1], Scenarios[n][2]>> : n \in DOMAIN Scenarios}

\* Trees nested deeper than MAX_JSON_DEPTH: differing at the innermost level
\* only, and differing at the top as well.
DeepL == Chain(MAX_JSON_DEPTH + 1, Num(1))
DeepR == Chain(MAX_JSON_DEPTH + 1, Num(2))
DeepLb == Obj(<< <<K("a"), Chain(MAX_JSON_DEPTH, Num(1))>>, <<K("b"), Num(1)>> >>)
DeepRb == Obj(<< <<K("a"), Chain(MAX_JSON_DEPTH, Num(2))>>, <<K("b"), Num(2)>> >>)
DeepPairs ==
  {<<DeepL, DeepR>>, <<DeepLb, DeepRb>>, <<DeepL, DeepL>>}
  \cup {<<Chain(d, Num(1)), Chain(d, Num(2))>> : d \in 1..MAX_JSON_DEPTH}

\* The pairs (left, right) the caller diffs.
DiffCases ==
  (Scalars \X Scalars) \cup (Arrays \X Arrays) \cup (Objects \X Objects)
  \cup (Nested \X Nested) \cup ScenarioPairs \cup DeepPairs

\* Deltas the caller builds by hand, well formed and not, and the bases it
\* applies them to.
Change(o, n) == Arr(<<o, n>>)
HandDeltas ==
  {NULL, Num(5), Arr(<<Num(1)>>),
   Change(Num(1), Num(2)),
   Change(Num(1), O1("a", Num(1))),
   Change(Num(1), Obj(<< <<<<>>, Num(1)>> >>)),
   Change(Num(1), Arr(<<Num(1)>>)),
   Obj(<< <<<<"_", "0">>, Del(Num(1))>>, Marker >>),
   Obj(<< <<<<"_", "1">>, Arr(<<Str(""), Num(0), Num(3)>>)>>, Marker >>),
   Obj(<< <<K("0"), O1("a", Change(Num(1), Num(2)))>>, Marker >>),
   Obj(<< <<K("0"), Num(5)>>, Marker >>),
   O1("a", Arr(<<Num(5)>>)),
   O1("a", Del(Num(1))),
   O1("a", Obj(<< <<K("0"), Arr(<<Num(9)>>)>>, Marker >>)),
   O1("b", O1("a", Change(Num(1), Num(2)))),
   Obj(<< <<ARRAY_MARKER, Change(Num(1), Num(2))>> >>),
   Obj(<< <<K("x"), Arr(<<Num(9)>>)>>, <<<<"1", "x">>, Arr(<<Num(9)>>)>>,
          <<<<"-", "1">>, Arr(<<Num(9)>>)>>, <<<<"_", "1", "x">>, Del(Num(2))>>,
          <<<<"_">>, Del(Num(1))>>, Marker >>),
   Obj(<< <<<<"+", "1">>, Arr(<<Num(9)>>)>>, Marker >>),
   Obj(<< <<<<"_", "x">>, Arr(<<Str(""), Num(1), Num(3)>>)>>, Marker >>),
   Obj(<< <<<<"_", "2">>, Arr(<<Str(""), Num(0), Num(3)>>)>>, Marker >>),
   Chain(MAX_JSON_DEPTH - 1, Change(Num(1), Num(2))),
   Chain(MAX_JSON_DEPTH + 1, Change(Num(1), Num(2)))}

Bases ==
  {NULL, Num(1), Arr(<<Num(1), Num(2)>>), Arr(<<Arr(<<Num(1), Num(2)>>)>>),
   Arr(<<Num(1), Num(2), Num(1)>>), Arr(<<Num(1), Num(2), Num(3)>>),
   Arr(<<O1("a", Num(1))>>),
   O1("a", Num(1)), O1("a", Arr(<<Num(1)>>)),
   Obj(<< <<K("a"), O1("a", Num(1))>>, <<K("b"), O1("a", Num(1))>> >>),
   Obj(<< <<ARRAY_MARKER, Num(1)>> >>),
   Chain(MAX_JSON_DEPTH - 1, Num(1)), DeepL}

\* ------------------------------------------------ json_myers_array_diff
\* myers.c.  A2 and B2 are the inner windows as sequences (A2[x] of the code
\* is A2[x + 1]), V is the int array of 2 * max + 1 cells as a function on
\* 0 .. 2 * max, off = max = N2 + M2, and trace[d + 1] is trace[d] of the
\* code.

\* while (x < N2 && y < M2 && json_value_equal(A2[x], B2[y], strict)) {x++; y++;}
RECURSIVE myers_snake(_, _, _, _, _)
myers_snake(A2, B2, strict_equality, x, y) ==
  IF x < Len(A2) /\ y < Len(B2)
     /\ json_value_equal(A2[x + 1], B2[y + 1], strict_equality)
  THEN myers_snake(A2, B2, strict_equality, x + 1, y + 1)
  ELSE x

\* for (k = -d; k <= d; k += 2) of the forward search: [V, found].
RECURSIVE myers_round(_, _, _, _, _, _)
myers_round(A2, B2, strict_equality, V, d, k) ==
  IF k > d THEN [V |-> V, found |-> FALSE]
  ELSE
    LET off == Len(A2) + Len(B2) IN
    Only({ Only({ IF x >= Len(A2) /\ x - k >= Len(B2)
                  THEN [V |-> [V EXCEPT ![k + off] = x], found |-> TRUE]
                  ELSE myers_round(A2, B2, strict_equality,
                                   [V EXCEPT ![k + off] = x], d, k + 2)
                  : x \in {myers_snake(A2, B2, strict_equality, x0, x0 - k)} })
           : x0 \in {IF k = -d \/ (k # d /\ V[k - 1 + off] < V[k + 1 + off])
                     THEN V[k + 1 + off] ELSE V[k - 1 + off] + 1} })

\* for (d = 0; d <= max; d++): [D_found, trace]; trace[d] is the copy of V
\* made before round d.
RECURSIVE myers_forward(_, _, _, _, _, _)
myers_forward(A2, B2, strict_equality, V, trace, d) ==
  IF d > Len(A2) + Len(B2) THEN [D_found |-> -1, trace |-> trace]
  ELSE Only({ IF r.found
              THEN [D_found |-> d, trace |-> Append(trace, V)]
              ELSE myers_forward(A2, B2, strict_equality, r.V,
                                 Append(trace, V), d + 1)
              : r \in {myers_round(A2, B2, strict_equality, V, d, -d)} })

\* for (d = D_found; d > 0; d--) and the loop that reverses segs after it:
\* what the backward walk appends last comes first.
\* struct seg {type, a_start, b_start, len}.
RECURSIVE myers_backtrack(_, _, _, _, _, _)
myers_backtrack(trace, off, x, y, d, segs) ==
  IF d <= 0 THEN segs
  ELSE
    LET Vprev == trace[d]
        k == x - y
        prev_k == IF k = -d \/ (k # d /\ Vprev[k - 1 + off] < Vprev[k + 1 + off])
                  THEN k + 1 ELSE k - 1
        x_prev == Vprev[prev_k + off]
        y_prev == x_prev - prev_k
        x_mid == IF prev_k = k + 1 THEN x_prev + 1 ELSE x_prev
        y_mid == IF prev_k = k + 1 THEN y_prev ELSE y_prev + 1
        eq_len == x - x_mid
        step == [type |-> IF prev_k = k + 1 THEN "SEG_DEL" ELSE "SEG_INS",
                 a_start |-> x_prev, b_start |-> y_prev, len |-> 1]
    IN myers_backtrack(trace, off, x_prev, y_prev, d - 1,
         <<step>>
         \o (IF eq_len > 0
             THEN <<[type |-> "SEG_EQUAL", a_start |-> x_mid,
                     b_start |-> y_mid, len |-> eq_len]>>
             ELSE <<>>)
         \o segs)

\* while (si < segs_count) and the two loops after it;
\* st = [d, hc, env, count, deletedCount, ia_ptr, ib_ptr].
RECURSIVE myers_emit(_, _, _, _, _)
myers_emit(A2, B2, segs, si, st) ==
  IF si <= Len(segs) THEN
    IF segs[si].type = "SEG_EQUAL" THEN myers_emit(A2, B2, segs, si + 1, st)
    ELSE IF segs[si].type = "SEG_DEL" THEN
      myers_emit(A2, B2, segs, si + 1,
        [(IF st.ia_ptr < Len(A2)
          THEN [Put(st, snprintf_ud(st.deletedCount),
                    create_deletion_array(A2[st.ia_ptr + 1]))
                  EXCEPT !.ia_ptr = @ + 1]
          ELSE st) EXCEPT !.deletedCount = @ + 1])
    ELSE
      myers_emit(A2, B2, segs, si + 1,
        [(IF st.ib_ptr < Len(B2)
          THEN [Put(st, snprintf_d(st.count),
                    create_addition_array(B2[st.ib_ptr + 1]))
                  EXCEPT !.ib_ptr = @ + 1]
          ELSE st) EXCEPT !.count = @ + 1])
  ELSE IF st.ia_ptr < Len(A2) THEN
    myers_emit(A2, B2, segs, si,
      [Put(st, snprintf_ud(st.deletedCount),
           create_deletion_array(A2[st.ia_ptr + 1]))
         EXCEPT !.ia_ptr = @ + 1, !.deletedCount = @ + 1])
  ELSE IF st.ib_ptr < Len(B2) THEN
    myers_emit(A2, B2, segs, si,
      [Put(st, snprintf_d(st.count), create_addition_array(B2[st.ib_ptr + 1]))
         EXCEPT !.ib_ptr = @ + 1, !.count = @ + 1])
  ELSE st

\* With one window empty the code emits the other window in one loop, which
\* is what the loops after the segments do when there is no segment, and it
\* adds the marker without looking for another member.
json_myers_array_diff(left, right, opts, env) ==
  LET N == cJSON_GetArraySize(left)
      M == cJSON_GetArraySize(right)
      Eq(i, j) == json_value_equal(left.child[i], right.child[j],
                                   opts.strict_equality)
      lcp == CHOOSE n \in 0..N :
               /\ n <= M /\ \A i \in 1..n : Eq(i, i)
               /\ ~(n < N /\ n < M /\ Eq(n + 1, n + 1))
      lcs == CHOOSE n \in 0..(N - lcp) :
               /\ n <= M - lcp /\ \A i \in 0..(n - 1) : Eq(N - i, M - i)
               /\ ~(n < N - lcp /\ n < M - lcp /\ Eq(N - n, M - n))
      A2 == SubSeq(left.child, lcp + 1, N - lcs)
      B2 == SubSeq(right.child, lcp + 1, M - lcs)
      max == Len(A2) + Len(B2)
  IN
  IF N = M /\ \A i \in 1..N : Eq(i, i) THEN RetE(NULL, env)
  ELSE IF max = 0 THEN RetE(NULL, env)
  ELSE Only({
    IF diff_obj.res = NULL THEN RetE(NULL, diff_obj.env)
    ELSE Only({ Only({
        IF HasNonMarker(tr.d) \/ A2 = <<>> \/ B2 = <<>>
        THEN Only({ RetE(mk.d, mk.env)
                    : mk \in {Put(tr, ARRAY_MARKER,
                                  cJSON_CreateString(ARRAY_MARKER_VALUE))} })
        ELSE RetE(NULL, Free(tr.env, tr.d))
        : tr \in {transform_array_object_changes(
                    [d |-> st.d, hc |-> st.hc, env |-> st.env],
                    CandidateIdxs(st.d.child, 1), 1, opts)} })
      : st \in {myers_emit(A2, B2,
                  IF A2 = <<>> \/ B2 = <<>> THEN <<>>
                  ELSE Only({ myers_backtrack(f.trace, max, Len(A2), Len(B2),
                                              f.D_found, <<>>)
                              : f \in {myers_forward(A2, B2,
                                         opts.strict_equality,
                                         [t \in 0..(2 * max) |-> 0], <<>>, 0)} }),
                  1,
                  [d |-> diff_obj.res, hc |-> FALSE, env |-> diff_obj.env,
                   count |-> lcp, deletedCount |-> lcp, ia_ptr |-> 0,
                   ib_ptr |-> 0])} })
    : diff_obj \in {New(env, cJSON_CreateObject)} })

\* ------------------------------------------------------ json_diff_str
\* A text the caller passes as const char *: s, the characters it begins
\* with (NULLSTR: the pointer is NULL), followed by pad spaces.
Text(s, pad) == [s |-> s, pad |-> pad]
strlen(t) == Len(t.s) + t.pad

\* cJSON_Parse on a text of digits, brackets, commas and white space:
\* parse_value and parse_array of cJSON.c, [ok, item, rest].  White space is
\* skipped before every value and after it; what follows the first value is
\* not looked at (require_null_terminated is off).
NoParse == [ok |-> FALSE, item |-> NULL, rest |-> <<>>]
RECURSIVE parse_value(_)
RECURSIVE parse_array(_, _)
parse_value(s) ==
  IF s = <<>> THEN NoParse
  ELSE IF IsDigit(Head(s))
  THEN Only({ [ok |-> TRUE, item |-> Num(n.val), rest |-> n.rest]
              : n \in {strtol(s)} })
  ELSE IF Head(s) = "["
  THEN Only({ IF t # <<>> /\ Head(t) = "]"
              THEN [ok |-> TRUE, item |-> Arr(<<>>), rest |-> Tail(t)]
              ELSE parse_array(t, <<>>)
              : t \in {SkipSpace(Tail(s))} })
  ELSE NoParse
parse_array(s, items) ==
  Only({ IF ~e.ok THEN NoParse
         ELSE Only({ IF t = <<>> THEN NoParse
                     ELSE IF Head(t) = ","
                     THEN parse_array(SkipSpace(Tail(t)), Append(items, e.item))
                     ELSE IF Head(t) = "]"
                     THEN [ok |-> TRUE, item |-> Arr(Append(items, e.item)),
                           rest |-> Tail(t)]
                     ELSE NoParse
                     : t \in {SkipSpace(e.rest)} })
         : e \in {parse_value(s)} })
cJSON_Parse(t) == Own(parse_value(SkipSpace(t.s)).item, "in")

\* What the caller holds once cJSON_Delete(left_json) and
\* cJSON_Delete(right_json) have run: every node of the two parsed trees is
\* released, those the delta still points at included.
RECURSIVE Deleted(_)
Deleted(v) ==
  IF v = NULL THEN NULL
  ELSE IF v.own = "in" THEN Own(v, "freed")
  ELSE [v EXCEPT !.child = [i \in DOMAIN v.child |-> Deleted(v.child[i])]]

json_diff_str(l, r, opts, env) ==
  IF l.s = NULLSTR \/ r.s = NULLSTR \/ strlen(l) > MAX_JSON_INPUT_SIZE
     \/ strlen(r) > MAX_JSON_INPUT_SIZE
  THEN RetE(NULL, env)
  ELSE Only({ IF left_json = NULL THEN RetE(NULL, env)
              ELSE Only({ IF right_json = NULL THEN RetE(NULL, env)
                          ELSE Only({ RetE(Deleted(d.res), d.env)
                                      : d \in {json_diff(left_json, right_json,
                                                         FALSE, opts, env)} })
                          : right_json \in {cJSON_Parse(r)} })
              : left_json \in {cJSON_Parse(l)} })

\* A released node read after the allocator has handed its block out again:
\* the reader finds another node's bytes there.
RECURSIVE Reused(_)
Reused(v) ==
  IF v = NULL THEN NULL
  ELSE IF v.own = "freed"
  THEN [Own(Str(<<"x">>), "freed") EXCEPT !.string = v.string]
  ELSE [v EXCEPT !.child = [i \in DOMAIN v.child |-> Reused(v.child[i])]]

Texts ==
  {Text(NULLSTR, 0), Text(<<>>, 0), Text(<<"x">>, 0), Text(<<"[", "1">>, 0),
   Text(<<"1">>, 0), Text(<<"2">>, 0), Text(<<" ", "1", "2", " ">>, 0),
   Text(<<"[", "]">>, 0), Text(<<"[", "1", "]">>, 0),
   Text(<<"[", " ", "1", ",", "2", " ", "]">>, 0),
   Text(<<"[", "[", "1", "]", "]">>, 0),
   Text(<<"1">>, MAX_JSON_INPUT_SIZE - 1), Text(<<"1">>, MAX_JSON_INPUT_SIZE),
   Text(<<"[", "1", "]">>, MAX_JSON_INPUT_SIZE - 3),
   Text(<<"[", "1", "]">>, MAX_JSON_INPUT_SIZE - 2)}

\* ---------------------------------------------------------------- state
VARIABLES
  left,             \* the caller's first tree (json_diff's left, json_patch's base)
  right,            \* the caller's second tree, NULL when it has none
  same,             \* right is the very node left is
  strict,           \* opts->strict_equality of the last json_diff
  delta,            \* the delta the caller holds, NULL when it holds none
  dsrc,             \* where delta is from: "none", "diff", "prim", "made",
                    \* "str"; "text": the caller holds texts, no trees
  patched,          \* what the last json_patch returned
  op,               \* the last call: "input", "diff", "add", "change", "del",
                    \* "patch", "diffstr", "myers"
  json_diff_depth,  \* static __thread int json_diff_depth
  json_patch_depth, \* static __thread int json_patch_depth
  hooks,            \* the allocator cJSON_InitHooks installed last (process-wide)
  current_arena,    \* static __thread current_arena is not NULL
  arena,            \* the struct json_diff_arena the caller's options name
  opts_arena,       \* opts->arena is not NULL in the caller's json_diff
  pc,               \* where the thread stands in a json_diff made in steps
  th2,              \* a second thread of the process and its json_diff
  text              \* the two texts the caller holds for json_diff_str

\* What the calls of a process with one thread, no arena and no text leave
\* alone.
aux == <<hooks, current_arena, arena, opts_arena, pc, th2, text>>

vars == <<left, right, same, strict, delta, dsrc, patched, op,
          json_diff_depth, json_patch_depth, aux>>

\* A struct json_diff_arena that was never set up, and one after
\* json_diff_arena_init(&arena, initial_capacity) whose malloc succeeded.
NoArena == [capacity |-> 0, offset |-> 0, blocks |-> <<>>, badfree |-> FALSE]
json_diff_arena_init(initial_capacity) ==
  [NoArena EXCEPT !.capacity = initial_capacity]

\* The second thread before it exists.
NoThread ==
  [pc |-> "none", left |-> NULL, right |-> NULL, opts_arena |-> FALSE,
   delta |-> NULL, json_diff_depth |-> 0, current_arena |-> FALSE,
   arena |-> NoArena]

\* A thread that has made no call yet, and the trees its caller has built:
\* two trees to diff, or a base and a hand-made delta to patch it with.
Init ==
  /\ strict = TRUE
  /\ patched = NULL
  /\ op = "input"
  /\ json_diff_depth = 0
  /\ json_patch_depth = 0
  /\ hooks = "malloc"
  /\ current_arena = FALSE
  /\ arena = NoArena
  /\ opts_arena = FALSE
  /\ pc = "idle"
  /\ th2 = NoThread
  /\ \/ /\ \E c \in DiffCases :
             /\ left = Own(c[1], "in")
             /\ right = Own(c[2], "in")
             /\ same = FALSE
          /\ delta = NULL
          /\ dsrc = "none"
          /\ text = <<>>
     \/ /\ \E v \in Scalars \cup Arrays \cup Objects \cup Nested :
             /\ left = Own(v, "in")
             /\ right = Own(v, "in")
             /\ same = TRUE
          /\ delta = NULL
          /\ dsrc = "none"
          /\ text = <<>>
     \/ /\ \E b \in Bases, d \in HandDeltas :
             /\ left = Own(b, "in")
             /\ delta = d
          /\ right = NULL
          /\ same = FALSE
          /\ dsrc = "made"
          /\ text = <<>>
     \/ /\ text \in Texts \X Texts
          /\ left = NULL
          /\ right = NULL
          /\ same = FALSE
          /\ delta = NULL
          /\ dsrc = "text"

\* The delta as json_patch's argument: what the caller holds is, to the
\* patcher, the delta's allocation (nodes of left and right that the delta
\* references stay theirs).
RECURSIVE AsDelta(_)
AsDelta(v) ==
  IF v = NULL THEN NULL
  ELSE [v EXCEPT !.own = IF @ = "heap" THEN "delta" ELSE @,
                 !.child = [i \in DOMAIN v.child |-> AsDelta(v.child[i])]]

\* struct json_diff_options {strict_equality, arena}; `arena`: a is not NULL.
Opts(s, a) == [strict_equality |-> s, arena |-> a]

\* What the thread's call reads and writes besides its arguments.
Env ==
  [depth |-> json_diff_depth, hooks |-> hooks, cur |-> current_arena,
   arena |-> arena]

\* cJSON *d = json_diff(left, right, &(struct json_diff_options){s, NULL});
\* the thread may make the call again on the same trees, after any number of
\* json_patch calls, and the caller then holds the new delta.
CallDiff ==
  /\ (op = "input" /\ dsrc = "none") \/ dsrc = "diff"
  /\ \E s \in BOOLEAN :
       LET r == json_diff(left, right, same, Opts(s, FALSE),
                          Env) IN
       /\ strict' = s
       /\ delta' = r.res
       /\ json_diff_depth' = r.env.depth
  /\ dsrc' = "diff"
  /\ op' = "diff"
  /\ UNCHANGED <<left, right, same, patched, json_patch_depth>>
  /\ UNCHANGED aux

CallAddition ==
  /\ op = "input" /\ dsrc = "none" /\ ~same
  /\ delta' = create_addition_array(right)
  /\ dsrc' = "prim"
  /\ op' = "add"
  /\ UNCHANGED <<left, right, same, strict, patched, json_diff_depth,
                 json_patch_depth>>
  /\ UNCHANGED aux

CallChange ==
  /\ op = "input" /\ dsrc = "none" /\ ~same
  /\ delta' = create_change_array(left, right)
  /\ dsrc' = "prim"
  /\ op' = "change"
  /\ UNCHANGED <<left, right, same, strict, patched, json_diff_depth,
                 json_patch_depth>>
  /\ UNCHANGED aux

CallDeletion ==
  /\ op = "input" /\ dsrc = "none" /\ ~same
  /\ delta' = create_deletion_array(left)
  /\ dsrc' = "prim"
  /\ op' = "del"
  /\ UNCHANGED <<left, right, same, strict, patched, json_diff_depth,
                 json_patch_depth>>
  /\ UNCHANGED aux

\* cJSON *p = json_patch(left, delta); the thread may make the call again.
CallPatch ==
  /\ op \in {"diff", "patch"} \/ (op = "input" /\ dsrc = "made")
  /\ json_patch_depth < MAX_JSON_DEPTH + MaxOverrun
  /\ LET r == json_patch(left, <<>>, AsDelta(delta), json_patch_depth) IN
       /\ patched' = r.res
       /\ json_patch_depth' = r.depth
  /\ op' = "patch"
  /\ UNCHANGED <<left, right, same, strict, delta, dsrc, json_diff_depth>>
  /\ UNCHANGED aux

\* cJSON *d = json_diff_str(text[1], text[2], &opts); the caller then reads
\* the delta, before or after the allocator has reused what the call
\* released.
CallDiffStr ==
  /\ op = "input" /\ dsrc = "text"
  /\ \E s \in BOOLEAN, reused \in BOOLEAN :
       \E r \in {json_diff_str(text[1], text[2], Opts(s, FALSE), Env)} :
         /\ strict' = s
         /\ delta' = IF reused THEN Reused(r.res) ELSE r.res
         /\ json_diff_depth' = r.env.depth
  /\ dsrc' = "str"
  /\ op' = "diffstr"
  /\ UNCHANGED <<left, right, same, patched, json_patch_depth>>
  /\ UNCHANGED aux

\* cJSON *d = json_myers_array_diff(left, right, &opts) on two arrays.
CallMyers ==
  /\ op = "input" /\ dsrc = "none" /\ ~same
  /\ cJSON_IsArray(left) /\ cJSON_IsArray(right)
  /\ \E s \in BOOLEAN :
       \E r \in {json_myers_array_diff(left, right, Opts(s, FALSE), Env)} :
         /\ strict' = s
         /\ delta' = r.res
         /\ json_diff_depth' = r.env.depth
  /\ dsrc' = "prim"
  /\ op' = "myers"
  /\ UNCHANGED <<left, right, same, patched, json_patch_depth>>
  /\ UNCHANGED aux

Next == CallDiff \/ CallAddition \/ CallChange \/ CallDeletion \/ CallPatch
          \/ CallDiffStr \/ CallMyers

Spec == Init /\ [][Next]_vars

\* ------------------------------------------------ two threads, and arenas
\* json_diff_arena_init(&arena, 1 << 20) (tests/bench_medium.c).
ArenaCapacity == 1048576

\* The pairs the second thread diffs.
Cases2 ==
  {<<O1("a", Num(1)), O1("a", Num(2))>>,
   <<Arr(<<Num(1)>>), Arr(<<Num(1), Num(2)>>)>>}

\* A process of two threads, neither of which has made a call yet.  Each
\* holds two trees of its own and, when its options name an arena, an arena
\* of its own.
InitConc ==
  /\ strict = TRUE
  /\ patched = NULL
  /\ op = "input"
  /\ json_diff_depth = 0
  /\ json_patch_depth = 0
  /\ same = FALSE
  /\ delta = NULL
  /\ dsrc = "none"
  /\ text = <<>>
  /\ hooks = "malloc"
  /\ current_arena = FALSE
  /\ pc = "idle"
  /\ \E c \in Nested \X Nested :
       /\ left = Own(c[1], "in")
       /\ right = Own(c[2], "in")
  /\ opts_arena \in BOOLEAN
  /\ arena = IF opts_arena THEN json_diff_arena_init(ArenaCapacity)
             ELSE NoArena
  /\ \E c \in Cases2, a \in BOOLEAN :
       th2 = [NoThread EXCEPT
                !.pc = "idle",
                !.left = Own(c[1], "in"),
                !.right = Own(c[2], "in"),
                !.opts_arena = a,
                !.arena = IF a THEN json_diff_arena_init(ArenaCapacity)
                          ELSE NoArena]

\* What the second thread's call reads and writes besides its arguments.
Env2 ==
  [depth |-> th2.json_diff_depth, hooks |-> hooks, cur |-> th2.current_arena,
   arena |-> th2.arena]

\* json_diff up to its call of do_json_diff (json_diff.c:1210-1223).
DiffEnter ==
  /\ pc = "idle" /\ op = "input"
  /\ IF json_diff_depth + 1 > MAX_JSON_DEPTH
     THEN /\ delta' = NULL
          /\ op' = "diff"
          /\ dsrc' = "diff"
          /\ UNCHANGED <<json_diff_depth, hooks, current_arena, arena, pc>>
     ELSE \E e \in {ArenaSetup(Opts(strict, opts_arena),
                                [Env EXCEPT !.depth = @ + 1])} :
            /\ json_diff_depth' = e.depth
            /\ hooks' = e.hooks
            /\ current_arena' = e.cur
            /\ arena' = [e.arena EXCEPT !.blocks = <<>>]
            /\ pc' = "body"
            /\ UNCHANGED <<delta, op, dsrc>>
  /\ UNCHANGED <<left, right, same, strict, patched, json_patch_depth,
                 opts_arena, th2, text>>

\* `cJSON *res = do_json_diff(left, right, opts);` (json_diff.c:1225).
DiffRun ==
  /\ pc = "body"
  /\ \E r \in {do_json_diff(left, right, same, Opts(strict, opts_arena),
                             Env)} :
       /\ delta' = r.res
       /\ json_diff_depth' = r.env.depth
       /\ hooks' = r.env.hooks
       /\ current_arena' = r.env.cur
       /\ arena' = r.env.arena
  /\ pc' = "leave"
  /\ UNCHANGED <<left, right, same, strict, dsrc, patched, op,
                 json_patch_depth, opts_arena, th2, text>>

\* json_diff after do_json_diff has returned (json_diff.c:1227-1233).
DiffLeave ==
  /\ pc = "leave"
  /\ \E e \in {ArenaTeardown(Opts(strict, opts_arena), Env)} :
       /\ hooks' = e.hooks
       /\ current_arena' = e.cur
       /\ arena' = e.arena
  /\ json_diff_depth' = json_diff_depth - 1
  /\ pc' = "idle"
  /\ op' = "diff"
  /\ dsrc' = "diff"
  /\ UNCHANGED <<left, right, same, strict, delta, patched,
                 json_patch_depth, opts_arena, th2, text>>

\* The same three steps of a json_diff the second thread makes, with default
\* strict_equality.
Enter2 ==
  /\ th2.pc = "idle"
  /\ \E e \in {ArenaSetup(Opts(TRUE, th2.opts_arena),
                           [Env2 EXCEPT !.depth = @ + 1])} :
       /\ hooks' = e.hooks
       /\ th2' = [th2 EXCEPT !.pc = "body", !.json_diff_depth = e.depth,
                             !.current_arena = e.cur,
                             !.arena = [e.arena EXCEPT !.blocks = <<>>]]
  /\ UNCHANGED <<left, right, same, strict, delta, dsrc, patched, op,
                 json_diff_depth, json_patch_depth, current_arena, arena,
                 opts_arena, pc, text>>

Run2 ==
  /\ th2.pc = "body"
  /\ \E r \in {do_json_diff(th2.left, th2.right, FALSE,
                             Opts(TRUE, th2.opts_arena), Env2)} :
       /\ hooks' = r.env.hooks
       /\ th2' = [th2 EXCEPT !.pc = "leave", !.delta = r.res,
                             !.json_diff_depth = r.env.depth,
                             !.current_arena = r.env.cur,
                             !.arena = r.env.arena]
  /\ UNCHANGED <<left, right, same, strict, delta, dsrc, patched, op,
                 json_diff_depth, json_patch_depth, current_arena, arena,
                 opts_arena, pc, text>>

Leave2 ==
  /\ th2.pc = "leave"
  /\ \E e \in {ArenaTeardown(Opts(TRUE, th2.opts_arena), Env2)} :
       /\ hooks' = e.hooks
       /\ th2' = [th2 EXCEPT !.pc = "done",
                             !.json_diff_depth = e.depth - 1,
                             !.current_arena = e.cur,
                             !.arena = e.arena]
  /\ UNCHANGED <<left, right, same, strict, delta, dsrc, patched, op,
                 json_diff_depth, json_patch_depth, current_arena, arena,
                 opts_arena, pc, text>>

NextConc == DiffEnter \/ DiffRun \/ DiffLeave \/ Enter2 \/ Run2 \/ Leave2

SpecConc == InitConc /\ [][NextConc]_vars

\* ------------------------------------------------------------ properties
\* What cJSON_Print shows of a tree: types, values, member keys, order.
RECURSIVE Wire(_)
Wire(v) ==
  [type |-> v.type, valuedouble |-> v.valuedouble, valuestring |-> v.valuestring,
   child |-> [i \in DOMAIN v.child |->
                [string |-> IF v.type = "object" THEN v.child[i].string
                            ELSE NULLSTR,
                 value |-> Wire(v.child[i])]]]

\* Every node of v is the call's own allocation, and none is released.
RECURSIVE Owned(_)
Owned(v) == v.own = "heap" /\ \A i \in DOMAIN v.child : Owned(v.child[i])

\* Some node of v that the call did not allocate was written.
RECURSIVE HasWrite(_)
HasWrite(v) == v.w \/ \E i \in DOMAIN v.child : HasWrite(v.child[i])

\* json_value_equal(l, r, s) with its `left == right` fast path.
Equal(l, r, s) == same \/ json_value_equal(l, r, s)

\* C1: round trip.  With default options, when json_diff(j1, j2) returned a
\* delta, json_patch(j1, delta) returns a value that is loosely equal to j2.
C1_RoundTrip ==
  (op = "patch" /\ dsrc = "diff" /\ strict /\ delta # NULL)
    => (patched # NULL /\ json_value_equal(patched, right, FALSE))

\* C2: equality/diff consistency.  In strict and in loose mode json_diff
\* returns NULL exactly when json_value_equal holds of its arguments.
C2_EqualIffNull ==
  op = "diff" => ((delta = NULL) <=> Equal(left, right, strict))

\* C3: reflexivity.  json_diff(j, j') is NULL when j' is the node j and when
\* j' is a separately built tree identical to j.
C3_Reflexive ==
  (op = "diff" /\ (same \/ left = right)) => delta = NULL

\* C4: symmetry of existence.  json_diff(j1, j2) is non-NULL exactly when
\* json_diff(j2, j1) is, objects with repeated or case-variant keys included.
C4_Symmetric ==
  op = "diff" =>
    ((delta # NULL) <=>
       (json_diff(right, left, same, Opts(strict, FALSE),
                  Env).res # NULL))

\* C5: wire vectors.  For each scenario pair the delta json_diff returns is
\* the listed one, and json_patch(L, delta) is equal to R.
C5_WireVectors ==
  \A n \in DOMAIN Scenarios :
    (dsrc = "diff" /\ strict /\ Wire(left) = Wire(Scenarios[n][1])
       /\ Wire(right) = Wire(Scenarios[n][2]))
      => /\ Wire(delta) = Wire(Scenarios[n][3])
         /\ op = "patch" =>
              (patched # NULL /\ json_value_equal(patched, right, FALSE))

\* C6: json_patch writes into no node of base and no node of delta, whether
\* it returns a value or NULL.
C6_ArgsUnchanged ==
  op = "patch" => ~HasWrite(patched)

\* C6, reached: an array delta with a deletion was applied to an array base,
\* so the patcher's working array was edited.
C6_Witness ==
  /\ op = "patch" /\ patched # NULL
  /\ cJSON_IsArray(left) /\ cJSON_IsArray(patched)
  /\ cJSON_GetObjectItem(delta, ARRAY_MARKER) # NULL
  /\ Len(patched.child) < Len(left.child)

\* C7: the value json_patch returns is fully owned: no node reachable from it
\* is a node of base or of delta.
C7_ResultOwned ==
  (op = "patch" /\ patched # NULL) => Owned(patched)

\* C8: the delta primitives embed deep copies.  create_addition_array(v) is
\* [v], create_change_array(o, n) is [o, n], create_deletion_array(o) is
\* [o, 0, 0], and no node of them is a node of the inputs.
C8_DeepCopies ==
  /\ op = "add" =>
       (Owned(delta) /\ Wire(delta) = Wire(Arr(<<right>>)))
  /\ op = "change" =>
       (Owned(delta) /\ Wire(delta) = Wire(Arr(<<left, right>>)))
  /\ op = "del" =>
       (Owned(delta) /\ Wire(delta) = Wire(Arr(<<left, Num(0), Num(0)>>)))

\* C9: depth guard balance.  Every call to json_diff and to json_patch leaves
\* the thread's depth counters at the values they had when it was entered.
C9_DepthBalanced ==
  [][/\ json_diff_depth' = json_diff_depth
     /\ json_patch_depth' = json_patch_depth]_vars

\* C10: depth refusal.  When the trees are nested deeper than MAX_JSON_DEPTH,
\* the top-level json_diff returns NULL and the top-level json_patch returns
\* NULL, not a result computed from the shallower part.
C10_DepthRefusal ==
  /\ (op = "diff" /\ Depth(left) > MAX_JSON_DEPTH
        /\ Depth(right) > MAX_JSON_DEPTH) => delta = NULL
  /\ (op = "patch" /\ Depth(left) > MAX_JSON_DEPTH
        /\ Depth(delta) > MAX_JSON_DEPTH) => patched = NULL

\* C11: determinism.  A json_diff call made again on the same thread with the
\* same inputs and the same options, whatever json_diff and json_patch calls
\* were made in between, returns a delta structurally identical to the one
\* before: same nodes, same member keys, same member order.
C11_Deterministic ==
  [][(dsrc = "diff" /\ op' = "diff" /\ strict' = strict)
       => Wire(delta') = Wire(delta)]_vars

\* A non-NULL delta of a repeated json_diff made after json_patch calls that
\* left their counter raised.
C11_Witness ==
  /\ op = "diff" /\ delta # NULL /\ patched # NULL /\ json_patch_depth > 1
  /\ delta.type = "object"

\* C12: leniency over call sequences.  In any sequence of json_patch calls on
\* one thread, a call whose base and delta are non-NULL and nested no deeper
\* than MAX_JSON_DEPTH returns a non-NULL value.
C12_LenientSequence ==
  (op = "patch" /\ left # NULL /\ delta # NULL
     /\ Depth(left) <= MAX_JSON_DEPTH /\ Depth(delta) <= MAX_JSON_DEPTH)
    => patched # NULL

\* The array delta without the entries whose key is not, after an optional
\* leading '_', a complete decimal integer in 0..INT_MAX.
WithoutBadKeys(d) ==
  LET DecimalIndexKey(k) ==
        \E t \in {IF StartsUnderscore(k) THEN Tail(k) ELSE k} :
          /\ t # <<>>
          /\ \A i \in DOMAIN t : IsDigit(t[i])
          /\ ~strtol(t).big
      KeepEntry(it) == it.string = ARRAY_MARKER \/ DecimalIndexKey(it.string)
  IN [d EXCEPT !.child = SelectSeq(@, KeepEntry)]

\* C13: index rejection in array patch.  An entry of an array delta whose key
\* is not a complete decimal integer in 0..INT_MAX (after an optional leading
\* '_') has no effect, whatever kind of entry it is: json_patch returns what
\* it returns for the delta with that entry removed.
C13_IndexRejection ==
  (op = "patch" /\ json_patch_depth = 1 /\ cJSON_IsArray(left)
     /\ cJSON_IsObject(delta)
     /\ cJSON_GetObjectItem(delta, ARRAY_MARKER) # NULL)
    => Wire(patched)
         = Wire(json_patch(left, <<>>, AsDelta(WithoutBadKeys(delta)), 0).res)

\* C20: array-delta detection in patch.  json_patch takes an object delta for
\* an array delta only when its member `_t` is the string "a"; a delta whose
\* `_t` member is a change [old, new] is applied member by member to an object
\* base, whose `_t` member then is `new` (base {"_t":1}, delta {"_t":[1,2]}
\* gives {"_t":2}).
C20_MarkerDetection ==
  \A m \in {cJSON_GetObjectItem(delta, ARRAY_MARKER)} :
    (op = "patch" /\ json_patch_depth <= 1
       /\ cJSON_IsObject(left) /\ cJSON_IsObject(delta)
       /\ cJSON_GetObjectItem(left, ARRAY_MARKER) # NULL
       /\ cJSON_IsArray(m) /\ cJSON_GetArraySize(m) = 2)
      => /\ patched # NULL /\ cJSON_IsObject(patched) /\ ~patched.ref
         /\ Wire(cJSON_GetObjectItem(patched, ARRAY_MARKER))
              = Wire(cJSON_GetArrayItem(m, 1))

\* C17: object delta member order.  For objects L and R with distinct keys,
\* the members of the delta json_diff returns are first the keys of L that are
\* deleted or changed, in L's insertion order, then the keys only R has, in
\* R's insertion order.
C17_MemberOrder ==
  LET Keys(v) == [i \in DOMAIN v.child |-> v.child[i].string]
      Distinct(ks) == \A i, j \in DOMAIN ks :
                        i # j => case_insensitive_strcmp(ks[i], ks[j]) # 0
      Has(ks, k) == \E i \in DOMAIN ks : ks[i] = k
      InDelta(k) == Has(Keys(delta), k)
      NotInLeft(k) == ~Has(Keys(left), k)
  IN (op = "diff" /\ delta # NULL /\ ~same
        /\ cJSON_IsObject(left) /\ cJSON_IsObject(right)
        /\ Distinct(Keys(left)) /\ Distinct(Keys(right)))
       => Keys(delta) = SelectSeq(Keys(left), InDelta)
                          \o SelectSeq(Keys(right), NotInLeft)

\* C18: object equality.  json_value_equal on two objects is true exactly when
\* they have the same number of members and every member (k, v) of the left
\* one has, in the right one, a member whose key is exactly k (same case) and
\* whose value is equal to v; member order does not matter.
C18_ObjectEquality ==
  (op = "diff" /\ ~same /\ cJSON_IsObject(left) /\ cJSON_IsObject(right))
    => (json_value_equal(left, right, strict)
          <=> /\ Len(left.child) = Len(right.child)
              /\ \A i \in DOMAIN left.child : \E j \in DOMAIN right.child :
                    /\ right.child[j].string = left.child[i].string
                    /\ json_value_equal(left.child[i], right.child[j],
                                        strict))

\* C19: array delta shape.  For arrays L and R json_diff returns NULL or an
\* object that has the member `_t` with the string "a" and at least one other
\* member, every other member being keyed by a decimal index or by '_'
\* followed by a decimal index, and no key occurring twice.
C19_ArrayDeltaShape ==
  LET ch == delta.child
      IsIndex(k) == k # <<>> /\ \A n \in DOMAIN k : IsDigit(k[n])
  IN (op = "diff" /\ cJSON_IsArray(left) /\ cJSON_IsArray(right)
        /\ delta # NULL)
       => /\ cJSON_IsObject(delta) /\ ~delta.ref
          /\ Len(ch) >= 2
          /\ \E n \in DOMAIN ch :
                /\ ch[n].string = ARRAY_MARKER
                /\ cJSON_IsString(ch[n])
                /\ ch[n].valuestring = ARRAY_MARKER_VALUE
          /\ \A n \in DOMAIN ch :
                \/ ch[n].string = ARRAY_MARKER
                \/ IsIndex(ch[n].string)
                \/ StartsUnderscore(ch[n].string) /\ IsIndex(Tail(ch[n].string))
          /\ \A m, n \in DOMAIN ch : m # n => ch[m].string # ch[n].string

\* An array delta that holds an addition and a deletion at one index.
C19_Witness ==
  /\ op = "diff" /\ cJSON_IsArray(left) /\ cJSON_IsArray(right)
  /\ delta # NULL
  /\ cJSON_GetObjectItem(delta, <<"0">>) # NULL
  /\ cJSON_GetObjectItem(delta, <<"_", "0">>) # NULL
  /\ Len(delta.child) >= 4

\* C15: thread isolation.  Two threads call json_diff at the same time, each
\* on trees of its own and with or without an arena of its own: whatever the
\* interleaving, each call returns what it returns when it runs alone.
C15_ThreadIsolation ==
  /\ (pc = "idle" /\ op = "diff")
       => Wire(delta)
            = Wire(json_diff(left, right, same, Opts(strict, opts_arena),
                     [depth |-> 0, hooks |-> "malloc", cur |-> FALSE,
                      arena |-> IF opts_arena
                                THEN json_diff_arena_init(ArenaCapacity)
                                ELSE NoArena]).res)
  /\ th2.pc = "done"
       => Wire(th2.delta)
            = Wire(json_diff(th2.left, th2.right, FALSE,
                     Opts(TRUE, th2.opts_arena),
                     [depth |-> 0, hooks |-> "malloc", cur |-> FALSE,
                      arena |-> IF th2.opts_arena
                                THEN json_diff_arena_init(ArenaCapacity)
                                ELSE NoArena]).res)

\* Every node of v that is no node of the call's arguments, and every member
\* key on such a node, is a block of the arena.
RECURSIVE Resident(_)
Resident(v) ==
  \/ v.own = "in"
  \/ /\ v.own = "arena"
     /\ v.string = NULLSTR \/ v.kown = "arena"
     /\ \A i \in DOMAIN v.child : Resident(v.child[i])

\* C16: arena residency.  When json_diff is given an arena, every node and
\* every key string of the delta it returns, nested deltas included, is
\* allocated inside the arena, and none comes from the ambient allocator.
\* (Stated for a call during which no other thread runs.)
C16_ArenaResident ==
  (pc = "idle" /\ op = "diff" /\ opts_arena /\ th2.pc = "idle"
     /\ delta # NULL)
    => Resident(delta)

\* C14: json_diff_str returns NULL when either text is NULL, is longer than
\* MAX_JSON_INPUT_SIZE bytes or does not parse; a text of exactly
\* MAX_JSON_INPUT_SIZE bytes is not refused for its size; in every other case
\* the caller holds the delta json_diff gives on the two parsed values.
C14_DiffStr ==
  op = "diffstr" =>
    \E l \in {text[1]}, r \in {text[2]} :
      IF l.s = NULLSTR \/ r.s = NULLSTR
         \/ strlen(l) > MAX_JSON_INPUT_SIZE \/ strlen(r) > MAX_JSON_INPUT_SIZE
         \/ cJSON_Parse(l) = NULL \/ cJSON_Parse(r) = NULL
      THEN delta = NULL
      ELSE Wire(delta)
             = Wire(json_diff(cJSON_Parse(l), cJSON_Parse(r), FALSE,
                              Opts(strict, FALSE), Env).res)

\* C21: object differ.  For unequal objects L and R with distinct keys the
\* delta json_diff returns has exactly these members: k -> [L[k], 0, 0] for
\* every key of L that R lacks, k -> json_diff(L[k], R[k]) for every key of
\* both whose values are unequal, k -> [R[k]] for every key of R that L
\* lacks; a key whose values are equal does not appear.
C21_ObjectDiffer ==
  LET Keys(v) == {v.child[i].string : i \in DOMAIN v.child}
      Distinct(v) == \A i, j \in DOMAIN v.child :
                       i # j => v.child[i].string # v.child[j].string
      Val(v, k) == v.child[CHOOSE i \in DOMAIN v.child : v.child[i].string = k]
      Sub(k) == json_diff(Val(left, k), Val(right, k), FALSE,
                          Opts(strict, FALSE),
                          [Env EXCEPT !.depth = @ + 1]).res
      Changed == {k \in Keys(left) \cap Keys(right) :
                    ~json_value_equal(Val(left, k), Val(right, k), strict)}
      Members(d) == {<<d.child[i].string, Wire(d.child[i])>> :
                       i \in DOMAIN d.child}
  IN (op = "diff" /\ ~same /\ cJSON_IsObject(left) /\ cJSON_IsObject(right)
        /\ Distinct(left) /\ Distinct(right)
        /\ ~json_value_equal(left, right, strict))
       => /\ delta # NULL
          /\ \A k \in Changed : Sub(k) # NULL
          /\ Members(delta)
               = {<<k, Wire(Arr(<<Val(left, k), Num(0), Num(0)>>))>> :
                    k \in Keys(left) \ Keys(right)}
                 \cup {<<k, Wire(Sub(k))>> : k \in Changed}
                 \cup {<<k, Wire(Arr(<<Val(right, k)>>))>> :
                         k \in Keys(right) \ Keys(left)}

\* C22: array delta keys.  For arrays L and R, every member of the delta
\* json_diff returns that has a numeric key j and a one-element value [v] has
\* j < length(R) and v = R[j], and every member with key _i and value
\* [v, 0, 0] has i < length(L) and v = L[i].
C22_ArrayDeltaKeys ==
  LET ch == delta.child
      IsIndex(k) == k # <<>> /\ \A n \in DOMAIN k : IsDigit(k[n])
      Holds(a, i, v) == i < Len(a.child) /\ Wire(v) = Wire(a.child[i + 1])
  IN (op = "diff" /\ cJSON_IsArray(left) /\ cJSON_IsArray(right)
        /\ delta # NULL)
       => \A n \in DOMAIN ch :
            /\ (IsIndex(ch[n].string) /\ cJSON_IsArray(ch[n])
                  /\ Len(ch[n].child) = 1)
                 => Holds(right, strtol(ch[n].string).val, ch[n].child[1])
            /\ (StartsUnderscore(ch[n].string) /\ IsIndex(Tail(ch[n].string))
                  /\ cJSON_IsArray(ch[n]) /\ Len(ch[n].child) = 3)
                 => Holds(left, strtol(Tail(ch[n].string)).val,
                          ch[n].child[1])

\* The length of a longest common subsequence of a[i..] and b[j..] under
\* json_value_equal: a shortest edit script of a into b has
\* Len(a) + Len(b) - 2 * LCS steps.
RECURSIVE LCS(_, _, _, _, _)
LCS(a, b, i, j, s) ==
  IF i > Len(a) \/ j > Len(b) THEN 0
  ELSE IF json_value_equal(a[i], b[j], s) THEN 1 + LCS(a, b, i + 1, j + 1, s)
  ELSE Only({ IF m > n THEN m ELSE n
              : m \in {LCS(a, b, i + 1, j, s)}, n \in {LCS(a, b, i, j + 1, s)} })

\* C23: equal runs in json_myers_array_diff.  For arrays L and R that hold no
\* object, the entries of the delta are exactly the deletions and insertions
\* of a shortest edit script (an element of an equal run between two edits
\* gives no entry), and each entry is keyed by the position its element has:
\* _i:[v, 0, 0] has v = L[i] and j:[v] has v = R[j].
C23_EqualRuns ==
  LET ch == delta.child
      NoObject(a) == \A i \in DOMAIN a.child : ~cJSON_IsObject(a.child[i])
      Holds(a, i, v) == i < Len(a.child) /\ Wire(v) = Wire(a.child[i + 1])
  IN (op = "myers" /\ delta # NULL /\ NoObject(left) /\ NoObject(right))
       => /\ Len(ch) - 1 = Len(left.child) + Len(right.child)
                            - 2 * LCS(left.child, right.child, 1, 1, strict)
          /\ \A n \in DOMAIN ch :
               \/ ch[n].string = ARRAY_MARKER
               \/ IF StartsUnderscore(ch[n].string)
                  THEN Holds(left, strtol(Tail(ch[n].string)).val,
                             ch[n].child[1])
                  ELSE Holds(right, strtol(ch[n].string).val, ch[n].child[1])

\* C24: the array differ of json_diff is the Myers differ.  For all arrays L
\* and R and all options, the delta json_diff returns for (L, R) and the delta
\* json_myers_array_diff returns for (L, R) are both NULL or have the same
\* members (the same keys with the same values).
C24_SameDiffer ==
  LET Members(d) == {<<d.child[i].string, Wire(d.child[i])>> :
                       i \in DOMAIN d.child}
  IN op = "myers" =>
       \E d \in {json_diff(left, right, FALSE, Opts(strict, FALSE), Env).res} :
         /\ (d = NULL) <=> (delta = NULL)
         /\ d # NULL /\ delta # NULL => Members(d) = Members(delta)

\* The additions ch[n..] of an array delta applied in order to the element
\* sequence w: position j is replaced when j is below the current length, and
\* the value is appended otherwise.
RECURSIVE ApplyAdditions(_, _, _)
ApplyAdditions(w, ch, n) ==
  IF n > Len(ch) THEN w
  ELSE IF ch[n].string = ARRAY_MARKER \/ StartsUnderscore(ch[n].string)
  THEN ApplyAdditions(w, ch, n + 1)
  ELSE Only({ ApplyAdditions(IF j < Len(w)
                             THEN [w EXCEPT ![j + 1] = ch[n].child[1]]
                             ELSE Append(w, ch[n].child[1]),
                             ch, n + 1)
              : j \in {strtol(ch[n].string).val} })

\* C25: array patch of deletions and additions.  For an array base B and an
\* array delta that holds only deletions _i:[old, 0, 0] and additions j:[v]
\* with valid indices, json_patch returns the array got by removing every
\* index named by a deletion and not by an addition, in descending order, and
\* then, for each addition in delta order, replacing position j when j is
\* below the current length and appending v otherwise.
C25_ArrayPatch ==
  LET ch == delta.child
      IsIndex(k) == k # <<>> /\ \A n \in DOMAIN k : IsDigit(k[n])
      IsMarker(n) == ch[n].string = ARRAY_MARKER /\ cJSON_IsString(ch[n])
                       /\ ch[n].valuestring = ARRAY_MARKER_VALUE
      IsDeletion(n) == /\ StartsUnderscore(ch[n].string)
                       /\ IsIndex(Tail(ch[n].string))
                       /\ strtol(Tail(ch[n].string)).val < Len(left.child)
                       /\ cJSON_IsArray(ch[n]) /\ Len(ch[n].child) = 3
                       /\ cJSON_IsNumber(ch[n].child[2])
                       /\ ch[n].child[2].valuedouble = <<0, 0>>
                       /\ cJSON_IsNumber(ch[n].child[3])
                       /\ ch[n].child[3].valuedouble = <<0, 0>>
      IsAddition(n) == /\ IsIndex(ch[n].string)
                       /\ cJSON_IsArray(ch[n]) /\ Len(ch[n].child) = 1
      Added == {strtol(ch[n].string).val : n \in {m \in DOMAIN ch : IsAddition(m)}}
      Removed == {strtol(Tail(ch[n].string)).val :
                    n \in {m \in DOMAIN ch : IsDeletion(m)}} \ Added
      Kept == {i \in DOMAIN left.child : (i - 1) \notin Removed}
      W == [n \in 1..Cardinality(Kept) |->
              left.child[CHOOSE i \in Kept :
                           Cardinality({j \in Kept : j < i}) = n - 1]]
  IN (op = "patch" /\ cJSON_IsArray(left) /\ delta # NULL
        /\ cJSON_IsObject(delta) /\ ~delta.ref
        /\ (\E n \in DOMAIN ch : IsMarker(n))
        /\ (\A n \in DOMAIN ch : IsMarker(n) \/ IsDeletion(n) \/ IsAddition(n))
        /\ (\A m, n \in DOMAIN ch : m # n => ch[m].string # ch[n].string))
       => /\ patched # NULL
          /\ Wire(patched) = Wire(Arr(ApplyAdditions(W, ch, 1)))

\* C26: move op.  For an array base B and an array delta whose only entry
\* besides `_t` is a move _s:["", d, 3] with 0 <= s < length(B) and
\* 0 <= d < length(B), json_patch returns B with the element at index s taken
\* out and put in at index d, the other elements keeping their order, also
\* when B holds other elements equal in value to B[s].
C26_MoveOp ==
  LET ch == delta.child
      IsIndex(k) == k # <<>> /\ \A n \in DOMAIN k : IsDigit(k[n])
      B == left.child
      Moved(src, dest) ==
        LET w == [n \in 1..(Len(B) - 1) |-> IF n <= src THEN B[n] ELSE B[n + 1]]
        IN [n \in 1..Len(B) |-> IF n <= dest THEN w[n]
                                ELSE IF n = dest + 1 THEN B[src + 1]
                                ELSE w[n - 1]]
  IN (op = "patch" /\ cJSON_IsArray(left) /\ delta # NULL
        /\ cJSON_IsObject(delta) /\ ~delta.ref /\ Len(ch) = 2
        /\ ch[2].string = ARRAY_MARKER /\ cJSON_IsString(ch[2])
        /\ ch[2].valuestring = ARRAY_MARKER_VALUE
        /\ StartsUnderscore(ch[1].string) /\ IsIndex(Tail(ch[1].string))
        /\ strtol(Tail(ch[1].string)).val < Len(B)
        /\ cJSON_IsArray(ch[1]) /\ Len(ch[1].child) = 3
        /\ cJSON_IsString(ch[1].child[1]) /\ ch[1].child[1].valuestring = ""
        /\ cJSON_IsNumber(ch[1].child[2])
        /\ ch[1].child[2].valuedouble[2] = 0
        /\ ch[1].child[2].valuedouble[1] \in 0..(Len(B) - 1)
        /\ cJSON_IsNumber(ch[1].child[3])
        /\ ch[1].child[3].valuedouble = <<3, 0>>)
       => /\ patched # NULL
          /\ Wire(patched)
               = Wire(Arr(Moved(strtol(Tail(ch[1].string)).val,
                                ch[1].child[2].valuedouble[1])))

\* C27: array patch works on base itself.  When base is an array whose only
\* element is an array, the indices of an array delta name positions of base
\* and never positions inside base[0]: a deletion _0 that no addition pairs
\* removes base[0], and the additions then replace or append elements of the
\* outer array.
C27_BaseItself ==
  LET ch == delta.child
      IsIndex(k) == k # <<>> /\ \A n \in DOMAIN k : IsDigit(k[n])
      IsMarker(n) == ch[n].string = ARRAY_MARKER /\ cJSON_IsString(ch[n])
                       /\ ch[n].valuestring = ARRAY_MARKER_VALUE
      IsDeletion0(n) == /\ ch[n].string = <<"_", "0">>
                        /\ cJSON_IsArray(ch[n]) /\ Len(ch[n].child) = 3
                        /\ cJSON_IsNumber(ch[n].child[3])
                        /\ ch[n].child[3].valuedouble = <<0, 0>>
      IsAddition(n) == /\ IsIndex(ch[n].string)
                       /\ cJSON_IsArray(ch[n]) /\ Len(ch[n].child) = 1
      W == IF (\E n \in DOMAIN ch : IsDeletion0(n))
              /\ ~\E n \in DOMAIN ch : IsAddition(n) /\ ch[n].string = <<"0">>
           THEN <<>> ELSE left.child
  IN (op = "patch" /\ json_patch_depth < MAX_JSON_DEPTH
        /\ cJSON_IsArray(left) /\ Len(left.child) = 1
        /\ cJSON_IsArray(left.child[1])
        /\ delta # NULL /\ cJSON_IsObject(delta) /\ ~delta.ref
        /\ (\E n \in DOMAIN ch : IsMarker(n))
        /\ (\A n \in DOMAIN ch : IsMarker(n) \/ IsDeletion0(n) \/ IsAddition(n))
        /\ (\A m, n \in DOMAIN ch : m # n => ch[m].string # ch[n].string))
       => /\ patched # NULL
          /\ Wire(patched) = Wire(Arr(ApplyAdditions(W, ch, 1)))

\* C28: depth limit boundary.  For two trees nested d levels deep that differ
\* at the innermost level only, json_diff called at depth 0 returns a delta
\* for every d up to and including MAX_JSON_DEPTH and refuses, with NULL, at
\* d = MAX_JSON_DEPTH + 1.
C28_DepthBoundary ==
  \A d \in 1..(MAX_JSON_DEPTH + 1) :
    (op = "diff" /\ ~same /\ Wire(left) = Wire(Chain(d, Num(1)))
       /\ Wire(right) = Wire(Chain(d, Num(2))))
      => ((delta # NULL) <=> (d <= MAX_JSON_DEPTH))

\* C29: object patch frame.  When json_patch applies an object delta to an
\* object base, every member of base whose key the delta does not name is in
\* the result under the same key with a value json_value_equal reports equal
\* to the base value, containers included, and every member of the result
\* has a key of base or of the delta.
C29_ObjectFrame ==
  LET Keys(v) == {v.child[i].string : i \in DOMAIN v.child}
  IN (op = "patch" /\ patched # NULL /\ delta # NULL
        /\ cJSON_IsObject(left) /\ cJSON_IsObject(delta) /\ ~delta.ref
        /\ cJSON_GetObjectItem(delta, ARRAY_MARKER) = NULL)
       => /\ cJSON_IsObject(patched)
          /\ \A i \in DOMAIN left.child :
               left.child[i].string \notin Keys(delta)
                 => \E j \in DOMAIN patched.child :
                      /\ patched.child[j].string = left.child[i].string
                      /\ json_value_equal(patched.child[j], left.child[i], TRUE)
          /\ Keys(patched) \subseteq Keys(left) \cup Keys(delta)

\* C30: from the entry of a top-level json_diff with an arena until its
\* return, the arena offset never moves backwards and no two blocks that
\* arena_malloc handed out overlap: every block starts at or after the end of
\* every block handed out before it, recursive json_diff calls for nested
\* members included.
C30_ArenaDisjoint ==
  (pc = "leave" /\ opts_arena)
    => \A i, j \in DOMAIN arena.blocks :
         i < j => arena.blocks[i].off + arena.blocks[i].size
                    <= arena.blocks[j].off

====
